---- MODULE Spec2Model ----
(***************************************************************************)
(* Model of the archival orchestrator of codextend (archive() and          *)
(* attemptArchive() in src/src/ui/Panel.tsx) together with the             *)
(* collaborators it drives: the reveal-menu and archive-trigger steps of   *)
(* src/src/lib/selectors.ts, the confirmation poll, the delay timers, the  *)
(* progress sink and the host page that detaches or flags rows.            *)
(***************************************************************************)
EXTENDS Integers, Sequences, FiniteSets, TLC

(* ---------------- program constants ---------------- *)

RETRIES == 3

(* ---------------- bounds of the model ---------------- *)

MaxTasks == 2

TaskIds == 1..MaxTasks

\* longest candidate list of the two runs that are compared step by step
MaxPairTasks == 1

\* largest finite timeout, interval and backoff factor handed to
\* waitForPredicate, in ticks of the clock
MaxTimeout == 3
MaxInterval == 2
MaxBackoff == 2

\* the clock is followed until one tick after the largest timeout
MaxClock == MaxTimeout + 1

\* largest interval and maxInterval, and the number of re-checks, of the
\* waits whose backoff is followed delay by delay
MaxDelay == 6
MaxChecks == 4

\* most candidates a scan of the panel finds, most toasts shown at a time,
\* and most archive() runs the panel store starts
MaxMatches == 2
MaxToasts == 1
MaxRuns == 2

\* longest keyword list handed to saveMatchSettings and longest keyword, in
\* characters
MaxKeywords == 2
MaxKeywordLen == 2

\* most task rows of a page that is scanned, and the cap on the rows a scan
\* considers: SCAN_MAX scaled to pages of this size
MaxRows == 3
ScanCap == 2

\* most calls of mountPanel in progress at a time, and most reports of one
\* task observer
MaxMounts == 2
MaxReports == 3

(* ---------------- values ---------------- *)

\* `undefined` in the place of an Error
Undefined == [kind |-> "undefined", msg |-> ""]

\* new Error("Failed to trigger archive action")
ErrTrigger == [kind |-> "Error", msg |-> "Failed to trigger archive action"]

\* new Error("Archive action did not complete in time")
ErrNotInTime == [kind |-> "Error", msg |-> "Archive action did not complete in time"]

\* new Error("Archive failed")
ErrArchiveFailed == [kind |-> "Error", msg |-> "Archive failed"]

\* what a collaborator may throw: an Error instance, or a non-Error value
Throwables ==
    { [kind |-> "Error", msg |-> "Attempted to click a disabled element"],
      [kind |-> "string", msg |-> "boom"] }

\* a value a collaborator returns (not throws)
Returns(value) == [kind |-> "return", msg |-> value]

\* the error thrown by a progress sink
SinkError == [kind |-> "Error", msg |-> "sink failed"]

\* mutant of ToError: the caught value is stored as it was thrown
ToErrorUnwrapped(error) == error

\* error instanceof Error ? error : new Error(String(error))
ToError(error) ==
    IF error.kind = "Error" THEN error ELSE [kind |-> "Error", msg |-> error.msg]

\* lastError ?? new Error("Archive failed")
FallbackError(error) ==
    IF error = Undefined THEN ErrArchiveFailed ELSE error

\* mutant of isRowArchived: the isConnected test is inverted
isRowArchivedInverted(row) ==
    IF row # "detached" THEN TRUE ELSE row = "flagged"

\* isRowArchived: the row is detached, or carries data-task-archived="true"
isRowArchived(row) ==
    IF row = "detached" THEN TRUE ELSE row = "flagged"

\* the absent `current` and `summary` of a progress event
NoCurrent == [task |-> 0, attempt |-> 0, success |-> "absent"]
NoSummary == [total |-> -1, archived |-> -1, failed |-> << >>]
NoResult == [success |-> FALSE, attempts |-> 0, error |-> Undefined]

\* [...failures]: the elements of the new array
Snapshot(list) == [i \in 1..Len(list) |-> list[i]]

\* mutant of SnapshotArray: the live failures array itself is handed out
SnapshotArrayLive(list) == "live"

\* [...failures]: the array object is a fresh copy, which later pushes to the
\* live failures array do not reach
SnapshotArray(list) == "copy"

\* mutant of Progress: the failed count of a 'failed' event is the one from
\* before the failure was pushed
ProgressStaleFailed(status, total, done, archived, failureList, current, summ) ==
    [status |-> status,
     total |-> total,
     processed |-> done,
     archived |-> archived,
     failed |-> IF status = "failed" THEN Len(failureList) - 1 ELSE Len(failureList),
     failures |-> Snapshot(failureList),
     failuresArray |-> SnapshotArray(failureList),
     current |-> current,
     summary |-> summ]

\* the ArchiveProgress object built at each emitProgress call of archive()
Progress(status, total, done, archived, failureList, current, summ) ==
    [status |-> status,
     total |-> total,
     processed |-> done,
     archived |-> archived,
     failed |-> Len(failureList),
     failures |-> Snapshot(failureList),
     failuresArray |-> SnapshotArray(failureList),
     current |-> current,
     summary |-> summ]

\* current.attempt of the 'attempt' event
AttemptNumber(done) == done + 1

\* mutant of NextProcessed: the increment is missing
NextProcessedStuck(done) == done

\* processed += 1
NextProcessed(done) == done + 1

\* mutant of DelayBeforeRetry: the delay is also awaited after the last attempt
DelayAfterEveryAttempt(n) == n <= RETRIES

\* if (attempts < RETRIES) await delay(ACTION_DELAY_MS), inside attemptArchive
DelayBeforeRetry(n) == n < RETRIES

\* mutant of MoreCandidates: the delay is also awaited after the last candidate
MoreCandidatesInclusive(done, n) == done <= n

\* if (processed < total) await delay(ACTION_DELAY_MS)
MoreCandidates(done, n) == done < n

\* mutant of RetriesLeft: off by one
RetriesLeftOffByOne(n) == n <= RETRIES

\* while (attempts < RETRIES)
RetriesLeft(n) == n < RETRIES

\* mutant of Summary: the failures are not copied into the summary
SummaryDropsFailures(total, archived, failureList) ==
    [total |-> total, archived |-> archived, failed |-> << >>]

\* the ArchiveSummary built after the loop
Summary(total, archived, failureList) ==
    [total |-> total, archived |-> archived, failed |-> Snapshot(failureList)]

\* the candidate lists: rows 1..n of the page in document order, as scan()
\* returns them
TaskLists == { [i \in 1..n |-> i] : n \in 0..MaxTasks }

(* ---------------- waitForPredicate: values ---------------- *)

\* timeout: a finite number of ticks, or Infinity
Finite(ms) == [finite |-> TRUE, ms |-> ms]
Infinity == [finite |-> FALSE, ms |-> 0]

\* the WaitForOptions of a call, without the signal
PollOptions ==
    [timeout : { Finite(ms) : ms \in 1..MaxTimeout } \cup {Infinity},
     interval : 1..MaxInterval,
     maxInterval : 1..MaxInterval,
     backoffFactor : 1..MaxBackoff]

\* no AbortSignal, and an AbortSignal that has not fired
NoSignal == [present |-> FALSE, aborted |-> FALSE, reason |-> Undefined]
QuietSignal == [present |-> TRUE, aborted |-> FALSE, reason |-> Undefined]
FiredSignal(reason) == [present |-> TRUE, aborted |-> TRUE, reason |-> reason]

\* signal.reason when the signal fires: an Error, a string, or nothing
AbortReasons ==
    { [kind |-> "Error", msg |-> "user cancelled"],
      [kind |-> "string", msg |-> "stop"],
      Undefined }

\* what the predicate may return: usable (truthy) values, or a falsy one
UsableValues == { Returns("ready"), Returns("element") }
FalsyValues == { Returns("null") }

\* what the predicate may throw: Errors, a non-Error value, or null
PredicateThrows ==
    { [kind |-> "Error", msg |-> "first failure"],
      [kind |-> "Error", msg |-> "second failure"],
      [kind |-> "string", msg |-> "boom"],
      [kind |-> "null", msg |-> "null"] }

PredicateOutcomes == UsableValues \cup FalsyValues \cup PredicateThrows

\* createTimeoutError(timeout)
TimeoutError == [kind |-> "Error", msg |-> "TimeoutError"]

\* createAbortError(reason)
AbortError(reason) ==
    IF reason.kind = "Error"
      THEN reason
      ELSE [kind |-> "Error",
            msg |-> IF reason.kind = "string" THEN reason.msg ELSE "Aborted"]

\* mutant of ErrorAtTimeout: the remembered error is dropped
ErrorAtTimeoutGeneric(error) == TimeoutError

\* lastError ?? createTimeoutError(timeout)
ErrorAtTimeout(error) ==
    IF error.kind \in {"undefined", "null"} THEN TimeoutError ELSE error

\* the states of the returned promise
Pending == [state |-> "pending", value |-> Undefined]
Resolved(value) == [state |-> "resolved", value |-> value]
Rejected(error) == [state |-> "rejected", value |-> error]

\* resolve(value): a settled promise stays as it is
Resolve(p, value) == IF p.state = "pending" THEN Resolved(value) ELSE p

\* reject(error instanceof Error ? error : new Error(String(error)))
Reject(p, error) == IF p.state = "pending" THEN Rejected(ToError(error)) ELSE p

\* mutant of NextInterval: the next interval is not capped at maxInterval
NextIntervalUncapped(current, opts) == current * opts.backoffFactor

\* Math.min(maxInterval, currentInterval * backoffFactor); the product of
\* finite numbers is finite
NextInterval(current, opts) ==
    IF current * opts.backoffFactor < opts.maxInterval
      THEN current * opts.backoffFactor
      ELSE opts.maxInterval

(* ---------------- state ---------------- *)

VARIABLES
    tasks,          \* the candidate list handed to archive()
    sink,           \* the onProgress argument: "none", "record", "throwing"
    rowState,       \* per row: "live", "flagged", "detached"
    pc,             \* position of the archive() run
    idx,            \* position of the for-of iterator over tasks
    processed,
    archivedCount,
    failures,
    attempts,       \* attemptArchive: attempts
    lastError,      \* attemptArchive: lastError
    menu,           \* attemptArchive: what openRowMenu returned
    attemptResult,  \* the AttemptResult returned to archive()
    events,         \* progress events handed to the sink, in order
    opens,          \* openRowMenu invocations for the current candidate
    clicks,         \* clickArchiveInMenu invocations for the current candidate
    confirms,       \* confirmArchived invocations for the current candidate
    retryDelays,    \* delays inside attemptArchive for the current candidate
    betweenDelays,  \* delays awaited between candidates
    detachedAtCall, \* whether the row was detached when attemptArchive was called
    result,         \* the returned promise: "pending", "resolved", "rejected"
    summary,        \* the value the promise resolved with
    rejection       \* the error the promise rejected with

\* one call of waitForPredicate
VARIABLES
    options,         \* timeout, interval, maxInterval, backoffFactor
    signal,          \* the AbortSignal option
    elapsed,         \* now() - start
    checkPc,         \* position of the call and of its check()
    active,
    currentInterval,
    timeoutId,       \* due times of the pending timeout timer (none or one)
    retryId,         \* due times of the pending retry timer (none or one)
    pollError,       \* waitForPredicate: lastError
    threwAt,         \* the invocation of the predicate that threw last, else 0
    invocations,     \* invocations of the predicate
    usableAt,        \* the invocation that first returned a usable value
    usable,          \* that value
    promise          \* the returned promise: state and value or error

poller == << options, signal, elapsed, checkPc, active, currentInterval,
             timeoutId, retryId, pollError, threwAt, invocations, usableAt, usable,
             promise >>

\* two runs of archive() over the same candidates, compared step by step:
\* the variables of the run hold one of them, twin holds the other
VARIABLES
    phase,           \* "off", or whose turn it is: "lead", "follow"
    twin             \* the onProgress argument, the events and the run state
                     \* of the run that is not in the variables

pair == << phase, twin >>

VARIABLES
    delays,          \* the delays handed to setTimeout(check, ...) by one
                     \* wait, in the order of the re-checks
    dom,             \* waitFor: "present" when root holds an element that
                     \* matches the selector, else "absent"
    elementPromise   \* the promise waitFor returns

VARIABLES
    page,            \* the task rows of the page, in document order
    candidates       \* what the last scan() returned: the places of the
                     \* rows of its candidates

scanned == << page, candidates >>

library == << delays, dom, elementPromise, scanned >>

VARIABLES
    store,           \* the state of usePanelStore
    flights,         \* the archive() runs the store started that have not
                     \* returned, in the order of their start
    runsStarted,     \* the number of calls of archive() by the store
    savedAck,        \* savePanelConfirmAcknowledged(true) was called
    tally            \* per run in flight: archivedCount of the run, and
                     \* whether the panel has been enabled since it started

panel == << store, flights, runsStarted, savedAck, tally >>

VARIABLES
    settings,        \* the settings the caller saves: the argument of the
                     \* last saveMatchSettings call, or of the coming one
    stored,          \* what the storage driver holds under MATCH_SETTINGS_KEY
    loaded,          \* what the last loadMatchSettings call returned
    sinceSave        \* "saved" after a save, "loaded" after a load that
                     \* followed it with no other call between, else "none"

storage == << settings, stored, loaded, sinceSave >>

\* the content script and the page it runs in
VARIABLES
    pathname,        \* window.location.pathname
    runPc,           \* run(): "start", "awaitInitial" or "listening"
    mounting,
    cleaningPanel,   \* "null", or what mountPanel returned: "unmount" for
                     \* the cleanup of a panel, "nothing" for () => {}
    mountCalls,      \* the calls of mountPanel that have not returned
    hosts,           \* the elements with id PANEL_HOST_ID in the document
    offsetStyle,     \* the style element PANEL_OFFSET_STYLE_ID is there
    taskList,        \* the document has an element of TASK_ROOT_SELECTORS
    previous,        \* createTaskObserver: previous
    connected,       \* the MutationObserver is observing
    records,         \* it has mutation records that were not delivered
    reports          \* the arguments of onAvailabilityChange, in order

content == << pathname, runPc, mounting, cleaningPanel, mountCalls, hosts,
             offsetStyle, taskList, previous, connected, records, reports >>

\* the state outside the archive() run
elsewhere == << poller, pair, library, panel, storage, content >>

archiveVars == << tasks, sink, rowState, pc, idx, processed, archivedCount,
                  failures, attempts, lastError, menu, attemptResult, events,
                  opens, clicks, confirms, retryDelays, betweenDelays,
                  detachedAtCall, result, summary, rejection >>

vars == << archiveVars, elsewhere >>


run == << processed, archivedCount, failures, attempts, lastError, menu,
          attemptResult, opens, clicks, confirms, retryDelays, betweenDelays,
          detachedAtCall, summary >>

total == Len(tasks)

task == tasks[idx]

\* no call of waitForPredicate is followed
PollerOff ==
    /\ options = [timeout |-> Infinity, interval |-> 1, maxInterval |-> 1,
                  backoffFactor |-> 1]
    /\ signal = NoSignal
    /\ elapsed = 0
    /\ checkPc = "off"
    /\ active = FALSE
    /\ currentInterval = 1
    /\ timeoutId = {}
    /\ retryId = {}
    /\ pollError = Undefined
    /\ threwAt = 0
    /\ invocations = 0
    /\ usableAt = 0
    /\ usable = Undefined
    /\ promise = [state |-> "pending", value |-> Undefined]

InitRun ==
    /\ rowState = [t \in TaskIds |-> "live"]
    /\ pc = "start"
    /\ idx = 0
    /\ processed = 0
    /\ archivedCount = 0
    /\ failures = << >>
    /\ attempts = 0
    /\ lastError = Undefined
    /\ menu = "none"
    /\ attemptResult = NoResult
    /\ events = << >>
    /\ opens = 0
    /\ clicks = 0
    /\ confirms = 0
    /\ retryDelays = 0
    /\ betweenDelays = 0
    /\ detachedAtCall = FALSE
    /\ result = "pending"
    /\ summary = NoSummary
    /\ rejection = Undefined

\* what a run does and returns, apart from its progress events: the page,
\* the position and locals of the run, the steps and delays it has made,
\* the promise
Observable ==
    [rowState |-> rowState, pc |-> pc, idx |-> idx, processed |-> processed,
     archivedCount |-> archivedCount, failures |-> failures,
     attempts |-> attempts, lastError |-> lastError, menu |-> menu,
     attemptResult |-> attemptResult, opens |-> opens, clicks |-> clicks,
     confirms |-> confirms, retryDelays |-> retryDelays,
     betweenDelays |-> betweenDelays, detachedAtCall |-> detachedAtCall,
     result |-> result, summary |-> summary, rejection |-> rejection]

\* a second run that has not started, called with the given onProgress
TwinAtStart(callback) ==
    [sink |-> callback, events |-> << >>, run |-> Observable]

\* no second run is followed
PairOff ==
    /\ phase = "off"
    /\ twin = TwinAtStart("none")

\* no wait is followed delay by delay
BackoffOff == delays = << >>

\* waitFor is not called
WaitForOff ==
    /\ dom = "absent"
    /\ elementPromise = [state |-> "pending", value |-> Undefined]

\* create<PanelStore>((set, get) => ({ ... })): the initial fields; of the
\* toasts list the number of its entries is kept, of an entry of matches its
\* status
StoreStart ==
    [ready |-> FALSE,
     statusMessage |-> "Initializing panel",
     matches |-> << >>,
     scanning |-> FALSE,
     archiving |-> FALSE,
     confirmVisible |-> FALSE,
     toasts |-> 0,
     panelEnabled |-> FALSE,
     confirmAcknowledged |-> FALSE]

\* the panel store is created and nothing is called on it
PanelOff ==
    /\ store = StoreStart
    /\ flights = << >>
    /\ runsStarted = 0
    /\ savedAck = FALSE
    /\ tally = << >>

\* no keyword list: nothing saved, nothing stored, nothing loaded
NoKeywords ==
    [set |-> FALSE, object |-> FALSE, array |-> FALSE, keywords |-> << >>]

\* a keyword list that was saved, is stored, or was loaded: an object whose
\* keywords field is an array with the entries of the list
SomeKeywords(list) ==
    [set |-> TRUE, object |-> TRUE, array |-> TRUE, keywords |-> list]

\* a stored value that is not an object: a number, a string, null
NotAnObject ==
    [set |-> TRUE, object |-> FALSE, array |-> FALSE, keywords |-> << >>]

\* a stored object whose keywords field is not an array, or missing
NoKeywordsArray ==
    [set |-> TRUE, object |-> TRUE, array |-> FALSE, keywords |-> << >>]

\* the storage is empty and the settings were neither saved nor loaded
StorageOff ==
    /\ settings = NoKeywords
    /\ stored = NoKeywords
    /\ loaded = NoKeywords
    /\ sinceSave = "none"

\* scan() was not called
NoScan == [done |-> FALSE, rows |-> << >>]

\* a page without task rows that is not scanned
ScanOff ==
    /\ page = << >>
    /\ candidates = NoScan

\* the content script has not run
ContentOff ==
    /\ pathname = << "/" >>
    /\ runPc = "off"
    /\ mounting = FALSE
    /\ cleaningPanel = "null"
    /\ mountCalls = << >>
    /\ hosts = 0
    /\ offsetStyle = FALSE
    /\ taskList = FALSE
    /\ previous = FALSE
    /\ connected = FALSE
    /\ records = FALSE
    /\ reports = << >>

LibraryOff ==
    BackoffOff /\ WaitForOff /\ ScanOff /\ PanelOff /\ StorageOff /\ ContentOff

\* archive(tasks) or archive(tasks, onProgress) with a sink that returns
Init ==
    /\ tasks \in TaskLists
    /\ sink \in {"none", "record"}
    /\ InitRun
    /\ PollerOff
    /\ PairOff
    /\ LibraryOff

\* archive(tasks, onProgress) with a sink that may throw
InitThrowingSink ==
    /\ tasks \in TaskLists
    /\ sink = "throwing"
    /\ InitRun
    /\ PollerOff
    /\ PairOff
    /\ LibraryOff

(* ---------------- emitProgress ---------------- *)

\* mutant of ThrowChoices: emitProgress calls the callback without testing
\* that there is one
ThrowChoicesUnguarded ==
    IF sink \in {"throwing", "none"} THEN BOOLEAN ELSE {FALSE}

\* whether the callback invoked by emitProgress may throw on this event
ThrowChoices == IF sink = "throwing" THEN BOOLEAN ELSE {FALSE}

\* mutant of Delivered: the initial 'pending' event never reaches the callback
DeliveredWithoutPending(progress) ==
    IF sink = "none" \/ progress.status = "pending"
      THEN events
      ELSE Append(events, progress)

\* mutant of Delivered: the 'complete' event never reaches the callback
DeliveredWithoutComplete(progress) ==
    IF sink = "none" \/ progress.status = "complete"
      THEN events
      ELSE Append(events, progress)

\* emitProgress(callback, progress): nothing without a callback
Delivered(progress) ==
    IF sink = "none" THEN events ELSE Append(events, progress)

\* a throw of the callback leaves archive() through its async frame
Escapes(error) ==
    /\ pc' = "rejected"
    /\ result' = "rejected"
    /\ rejection' = error

(* ---------------- the host page ---------------- *)

\* The rows the run may still look at: those of the current candidate and of
\* the candidates after it. The row of a reported candidate is never read
\* again, so what the host does to it is not modelled.
WatchedRows == { tasks[i] : i \in { j \in 1..Len(tasks) : j >= idx } }

\* the host application flags a row as archived (data-task-archived="true")
HostFlagsRow(t) ==
    /\ t \in WatchedRows
    /\ rowState[t] = "live"
    /\ rowState' = [rowState EXCEPT ![t] = "flagged"]
    /\ UNCHANGED << elsewhere, tasks, sink, pc, idx, events, result,
                    rejection, run >>

\* the host application removes a row from the document
HostDetachesRow(t) ==
    /\ t \in WatchedRows
    /\ rowState[t] # "detached"
    /\ rowState' = [rowState EXCEPT ![t] = "detached"]
    /\ UNCHANGED << elsewhere, tasks, sink, pc, idx, events, result,
                    rejection, run >>

(* ---------------- archive() ---------------- *)

\* archive(): the initial 'pending' event
Start(throws) ==
    /\ pc = "start"
    /\ events' = Delivered(Progress("pending", total, processed, archivedCount,
                                    failures, NoCurrent, NoSummary))
    /\ IF throws
         THEN Escapes(SinkError)
         ELSE /\ pc' = "loop"
              /\ UNCHANGED << result, rejection >>
    /\ UNCHANGED << elsewhere, tasks, sink, rowState, idx, run >>

\* for (const task of tasks): the 'attempt' event, then attemptArchive(task)
BeginCandidate(throws) ==
    /\ pc = "loop"
    /\ idx < Len(tasks)
    /\ idx' = idx + 1
    /\ events' = Delivered(Progress("attempt", total, processed, archivedCount,
                                    failures,
                                    [task |-> tasks[idx + 1],
                                     attempt |-> AttemptNumber(processed),
                                     success |-> "absent"],
                                    NoSummary))
    /\ IF throws
         THEN /\ Escapes(SinkError)
              /\ UNCHANGED << attempts, lastError, menu, opens, clicks,
                              confirms, retryDelays, detachedAtCall >>
         ELSE /\ pc' = "attemptHead"
              /\ attempts' = 0
              /\ lastError' = Undefined
              /\ menu' = "none"
              /\ opens' = 0
              /\ clicks' = 0
              /\ confirms' = 0
              /\ retryDelays' = 0
              /\ detachedAtCall' = (rowState[tasks[idx + 1]] = "detached")
              /\ UNCHANGED << result, rejection >>
    /\ UNCHANGED << elsewhere, tasks, sink, rowState, processed,
                    archivedCount, failures, attemptResult, betweenDelays,
                    summary >>

(* ---------------- attemptArchive() ---------------- *)

\* while (attempts < RETRIES) { attempts += 1 ... } return { success: false, ... }
AttemptHead ==
    /\ pc = "attemptHead"
    /\ IF RetriesLeft(attempts)
         THEN /\ attempts' = attempts + 1
              /\ pc' = "openMenu"
              /\ UNCHANGED attemptResult
         ELSE /\ attemptResult' = [success |-> FALSE, attempts |-> attempts,
                                   error |-> FallbackError(lastError)]
              /\ pc' = "attemptReturn"
              /\ UNCHANGED attempts
    /\ UNCHANGED << elsewhere, tasks, sink, detachedAtCall, rowState, idx,
                    processed, archivedCount, failures, lastError, menu,
                    events, opens, clicks, confirms, retryDelays,
                    betweenDelays, result, summary, rejection >>

\* catch (error) { lastError = ... }: the attempt ends with the folded error
Caught(error) ==
    /\ lastError' = ToError(error)
    /\ pc' = "attemptEnd"

\* smoothScrollIntoView(row); const menu = await openRowMenu(row)
\* the scroll never throws; openRowMenu yields the menu, null, or throws
OpenMenu(outcome) ==
    /\ pc = "openMenu"
    /\ opens' = opens + 1
    /\ IF outcome \in Throwables
         THEN /\ Caught(outcome)
              /\ UNCHANGED menu
         ELSE /\ menu' = outcome.msg
              /\ pc' = "click"
              /\ UNCHANGED lastError
    /\ UNCHANGED << elsewhere, tasks, sink, detachedAtCall, rowState, idx,
                    processed, archivedCount, failures, attempts,
                    attemptResult, events, clicks, confirms, retryDelays,
                    betweenDelays, result, summary, rejection >>

\* const clicked = await clickArchiveInMenu(menu ?? document)
ClickArchive(outcome) ==
    /\ pc = "click"
    /\ clicks' = clicks + 1
    /\ IF outcome \in Throwables
         THEN Caught(outcome)
         ELSE IF outcome = Returns("false")
                THEN /\ lastError' = ErrTrigger
                     /\ pc' = "attemptEnd"
                ELSE /\ pc' = "confirm"
                     /\ UNCHANGED lastError
    /\ UNCHANGED << elsewhere, tasks, sink, detachedAtCall, rowState, idx,
                    processed, archivedCount, failures, attempts, menu,
                    attemptResult, events, opens, confirms, retryDelays,
                    betweenDelays, result, summary, rejection >>

\* mutant of Confirmed: the attempt count is reported zero-based
ConfirmedZeroBased ==
    /\ attemptResult' = [success |-> TRUE, attempts |-> attempts - 1,
                         error |-> Undefined]
    /\ pc' = "attemptReturn"
    /\ UNCHANGED lastError

\* if (confirmed) return { success: true, attempts }
Confirmed ==
    /\ attemptResult' = [success |-> TRUE, attempts |-> attempts,
                         error |-> Undefined]
    /\ pc' = "attemptReturn"
    /\ UNCHANGED lastError

\* confirmArchived(row): the poll's first check runs at the call
ConfirmCall ==
    /\ pc = "confirm"
    /\ confirms' = confirms + 1
    /\ IF isRowArchived(rowState[task])
         THEN Confirmed
         ELSE /\ pc' = "confirmPoll"
              /\ UNCHANGED << attemptResult, lastError >>
    /\ UNCHANGED << elsewhere, tasks, sink, detachedAtCall, rowState, idx,
                    processed, archivedCount, failures, attempts, menu,
                    events, opens, clicks, retryDelays, betweenDelays, result,
                    summary, rejection >>

\* confirmArchived(row): a later check of the poll sees the row archived
ConfirmPollObserves ==
    /\ pc = "confirmPoll"
    /\ isRowArchived(rowState[task])
    /\ Confirmed
    /\ UNCHANGED << elsewhere, tasks, sink, detachedAtCall, rowState, idx,
                    processed, archivedCount, failures, attempts, menu,
                    events, opens, clicks, confirms, retryDelays,
                    betweenDelays, result, summary, rejection >>

\* mutant of ConfirmPollTimeout: the poll has no timeout
ConfirmPollNeverTimesOut ==
    /\ pc = "confirmPoll"
    /\ FALSE
    /\ UNCHANGED vars

\* confirmArchived(row): the poll rejects (timeout), caught and turned to false
ConfirmPollTimeout ==
    /\ pc = "confirmPoll"
    /\ lastError' = ErrNotInTime
    /\ pc' = "attemptEnd"
    /\ UNCHANGED << elsewhere, tasks, sink, detachedAtCall, rowState, idx,
                    processed, archivedCount, failures, attempts, menu,
                    attemptResult, events, opens, clicks, confirms,
                    retryDelays, betweenDelays, result, summary, rejection >>

\* if (attempts < RETRIES) await delay(ACTION_DELAY_MS)
AttemptEnd ==
    /\ pc = "attemptEnd"
    /\ IF DelayBeforeRetry(attempts)
         THEN /\ retryDelays' = retryDelays + 1
              /\ pc' = "retryDelay"
         ELSE /\ pc' = "attemptHead"
              /\ UNCHANGED retryDelays
    /\ UNCHANGED << elsewhere, tasks, sink, detachedAtCall, rowState, idx,
                    processed, archivedCount, failures, attempts, lastError,
                    menu, attemptResult, events, opens, clicks, confirms,
                    betweenDelays, result, summary, rejection >>

\* the timer of the delay inside attemptArchive fires
RetryDelayFires ==
    /\ pc = "retryDelay"
    /\ pc' = "attemptHead"
    /\ UNCHANGED << elsewhere, tasks, sink, rowState, idx, events, result,
                    rejection, run >>

(* ---------------- archive(), after attemptArchive ---------------- *)

\* mutant of Failure: the attempts are counted from zero
FailureZeroBased(t, res) ==
    [task |-> t, attempts |-> res.attempts - 1, error |-> FallbackError(res.error)]

\* the ArchiveFailure pushed when the attempt result is not a success
Failure(t, res) ==
    [task |-> t, attempts |-> res.attempts, error |-> FallbackError(res.error)]

\* processed += 1, then the 'archived' or the 'failed' event, then the
\* delay between candidates when processed < total
CandidateDone(throws) ==
    /\ pc = "attemptReturn"
    /\ processed' = NextProcessed(processed)
    /\ IF attemptResult.success
         THEN /\ archivedCount' = archivedCount + 1
              /\ UNCHANGED failures
              /\ events' = Delivered(Progress("archived", total, processed',
                                 archivedCount', failures',
                                 [task |-> task,
                                  attempt |-> attemptResult.attempts,
                                  success |-> "true"],
                                 NoSummary))
         ELSE /\ failures' = Append(failures, Failure(task, attemptResult))
              /\ UNCHANGED archivedCount
              /\ events' = Delivered(Progress("failed", total, processed',
                                 archivedCount', failures',
                                 [task |-> task,
                                  attempt |-> attemptResult.attempts,
                                  success |-> "false"],
                                 NoSummary))
    /\ IF throws
         THEN /\ Escapes(SinkError)
              /\ UNCHANGED betweenDelays
         ELSE /\ IF MoreCandidates(processed', total)
                   THEN /\ betweenDelays' = betweenDelays + 1
                        /\ pc' = "betweenDelay"
                   ELSE /\ pc' = "loop"
                        /\ UNCHANGED betweenDelays
              /\ UNCHANGED << result, rejection >>
    /\ UNCHANGED << elsewhere, tasks, sink, detachedAtCall, rowState, idx,
                    attempts, lastError, menu, attemptResult, opens, clicks,
                    confirms, retryDelays, summary >>

\* the timer of the delay between candidates fires
BetweenDelayFires ==
    /\ pc = "betweenDelay"
    /\ pc' = "loop"
    /\ UNCHANGED << elsewhere, tasks, sink, rowState, idx, events, result,
                    rejection, run >>

\* after the loop: the summary, the 'complete' event, return summary
Finish(throws) ==
    /\ pc = "loop"
    /\ idx = Len(tasks)
    /\ LET s == Summary(total, archivedCount, failures) IN
         /\ events' = Delivered(Progress("complete", total, processed,
                                         archivedCount, failures, NoCurrent, s))
         /\ IF throws
              THEN /\ Escapes(SinkError)
                   /\ UNCHANGED summary
              ELSE /\ summary' = s
                   /\ result' = "resolved"
                   /\ pc' = "done"
                   /\ UNCHANGED rejection
    /\ UNCHANGED << elsewhere, tasks, sink, detachedAtCall, rowState, idx,
                    processed, archivedCount, failures, attempts, lastError,
                    menu, attemptResult, opens, clicks, confirms, retryDelays,
                    betweenDelays >>

(* ---------------- specifications ---------------- *)

\* what openRowMenu may do
MenuOutcomes == {Returns("menu"), Returns("null")} \cup Throwables

\* what clickArchiveInMenu may do
ClickOutcomes == {Returns("true"), Returns("false")} \cup Throwables

\* the steps of the run: code of archive()/attemptArchive() and its timers
RunStep ==
    \/ \E throws \in ThrowChoices : Start(throws)
    \/ \E throws \in ThrowChoices : BeginCandidate(throws)
    \/ AttemptHead
    \/ \E outcome \in MenuOutcomes : OpenMenu(outcome)
    \/ \E outcome \in ClickOutcomes : ClickArchive(outcome)
    \/ ConfirmCall
    \/ ConfirmPollObserves
    \/ ConfirmPollTimeout
    \/ AttemptEnd
    \/ RetryDelayFires
    \/ \E throws \in ThrowChoices : CandidateDone(throws)
    \/ BetweenDelayFires
    \/ \E throws \in ThrowChoices : Finish(throws)

\* the steps of the host page
HostStep ==
    \/ \E t \in TaskIds : HostFlagsRow(t)
    \/ \E t \in TaskIds : HostDetachesRow(t)

Next == RunStep \/ HostStep

Spec == Init /\ [][Next]_vars

\* the run's own steps and timers are always eventually taken
FairSpec == Init /\ [][Next]_vars /\ WF_vars(RunStep)

\* runs whose progress sink may throw
SpecThrowingSink == InitThrowingSink /\ [][Next]_vars

(* ---------------- waitForPredicate: the call ---------------- *)

\* the state that belongs to archive() and to nothing of waitForPredicate
outsidePoller == << archiveVars, pair, library, panel, storage, content >>

\* waitForPredicate(predicate, options) has run its executor: start is
\* taken, the timeout timer is set unless the timeout is Infinity, and the
\* first check() is about to run
PollerCall ==
    /\ options \in PollOptions
    /\ signal \in {NoSignal, QuietSignal} \cup { FiredSignal(r) : r \in AbortReasons }
    /\ elapsed = 0
    /\ checkPc = "check"
    /\ active = TRUE
    /\ currentInterval = options.interval
    /\ timeoutId = IF options.timeout.finite THEN {options.timeout.ms} ELSE {}
    /\ retryId = {}
    /\ pollError = Undefined
    /\ threwAt = 0
    /\ invocations = 0
    /\ usableAt = 0
    /\ usable = Undefined
    /\ promise = Pending

\* a call of waitForPredicate with any predicate, and nothing else going on
PollerInit ==
    /\ PollerCall
    /\ tasks = << >>
    /\ sink = "none"
    /\ InitRun
    /\ PairOff
    /\ LibraryOff

\* mutant of ClearAndSettle: the promise settles without clear()
SettleWithoutClear(settled) ==
    /\ promise' = settled
    /\ UNCHANGED << active, timeoutId, retryId >>

\* clear(), then the promise settles as given
ClearAndSettle(settled) ==
    /\ active' = FALSE
    /\ timeoutId' = {}
    /\ retryId' = {}
    /\ promise' = settled

\* rejectWithError(error)
RejectWithError(error) == ClearAndSettle(Reject(promise, error))

\* a timer of the call is due
Due(timer) == \E d \in timer : d <= elapsed

\* synchronous code, or an await of a value that is already there, is
\* running: no timer fires, no signal fires and no time passes before it ends
Busy == checkPc \in {"check", "awaitNow"}

\* check(): the guards, then the predicate is invoked; its value arrives at
\* once (latency "awaitNow") or after other events (latency "awaitLater")
CheckHead(latency) ==
    /\ checkPc = "check"
    /\ IF ~active
         THEN /\ checkPc' = "idle"
              /\ UNCHANGED << active, timeoutId, retryId, promise,
                              invocations >>
         ELSE IF signal.aborted
                THEN /\ RejectWithError(AbortError(signal.reason))
                     /\ checkPc' = "idle"
                     /\ UNCHANGED invocations
                ELSE /\ invocations' = invocations + 1
                     /\ checkPc' = latency
                     /\ UNCHANGED << active, timeoutId, retryId, promise >>
    /\ UNCHANGED << outsidePoller, options, signal, elapsed, currentInterval,
                    pollError, threwAt, usableAt, usable >>

\* mutant of PredicateUsable: the poll goes on after a usable value
PredicateUsableIgnored(value) ==
    /\ checkPc \in {"awaitNow", "awaitLater"}
    /\ usableAt' = IF usableAt = 0 THEN invocations ELSE usableAt
    /\ usable' = IF usableAt = 0 THEN value ELSE usable
    /\ currentInterval' = NextInterval(currentInterval, options)
    /\ retryId' = {elapsed + currentInterval'}
    /\ checkPc' = "idle"
    /\ UNCHANGED << outsidePoller, options, signal, elapsed, active, timeoutId,
                    promise, pollError, threwAt, invocations >>

\* const value = await predicate(); if (value) { clear(); resolve(value) }
PredicateUsable(value) ==
    /\ checkPc \in {"awaitNow", "awaitLater"}
    /\ usableAt' = IF usableAt = 0 THEN invocations ELSE usableAt
    /\ usable' = IF usableAt = 0 THEN value ELSE usable
    /\ ClearAndSettle(Resolve(promise, value))
    /\ checkPc' = "idle"
    /\ UNCHANGED << outsidePoller, options, signal, elapsed, currentInterval,
                    pollError, threwAt, invocations >>

\* mutant of Remembered: a return without a usable value clears the error
RememberedUntilNextReturn(outcome, error) ==
    IF outcome \in PredicateThrows THEN outcome ELSE Undefined

\* catch (error) { lastError = error }: a return leaves lastError as it is
Remembered(outcome, error) ==
    IF outcome \in PredicateThrows THEN outcome ELSE error

\* the predicate returned a falsy value or threw: a thrown value is
\* remembered, then the timeout test, else the next check is scheduled
PredicateUnusable(outcome) ==
    /\ checkPc \in {"awaitNow", "awaitLater"}
    /\ pollError' = Remembered(outcome, pollError)
    /\ threwAt' = IF outcome \in PredicateThrows THEN invocations ELSE threwAt
    /\ IF options.timeout.finite /\ elapsed >= options.timeout.ms
         THEN /\ RejectWithError(ErrorAtTimeout(pollError'))
              /\ UNCHANGED currentInterval
         ELSE /\ currentInterval' = NextInterval(currentInterval, options)
              /\ retryId' = {elapsed + currentInterval'}
              /\ UNCHANGED << active, timeoutId, promise >>
    /\ checkPc' = "idle"
    /\ UNCHANGED << outsidePoller, options, signal, elapsed, invocations,
                    usableAt, usable >>

\* mutant of TimeoutFires: the timeout is only acted on between checks
TimeoutFiresBetweenChecks ==
    /\ checkPc = "idle"
    /\ Due(timeoutId)
    /\ RejectWithError(ErrorAtTimeout(pollError))
    /\ UNCHANGED << outsidePoller, options, signal, elapsed, checkPc,
                    currentInterval, pollError, threwAt, invocations, usableAt,
                    usable >>

\* the timeout timer fires: rejectWithError(lastError ?? createTimeoutError())
TimeoutFires ==
    /\ ~Busy
    /\ Due(timeoutId)
    /\ RejectWithError(ErrorAtTimeout(pollError))
    /\ UNCHANGED << outsidePoller, options, signal, elapsed, checkPc,
                    currentInterval, pollError, threwAt, invocations, usableAt,
                    usable >>

\* the retry timer fires: check() runs
RetryFires ==
    /\ ~Busy
    /\ Due(retryId)
    /\ retryId' = {}
    /\ checkPc' = "check"
    /\ UNCHANGED << outsidePoller, options, signal, elapsed, active,
                    currentInterval, timeoutId, pollError, threwAt, invocations,
                    usableAt, usable, promise >>

\* the signal fires
AbortFires(reason) ==
    /\ ~Busy
    /\ signal = QuietSignal
    /\ signal' = FiredSignal(reason)
    /\ UNCHANGED << outsidePoller, options, elapsed, checkPc, active,
                    currentInterval, timeoutId, retryId, pollError, threwAt,
                    invocations, usableAt, usable, promise >>

\* a tick of the clock; timers fire when they are due, so no tick passes
\* over a due timer
Tick ==
    /\ ~Busy
    /\ promise.state = "pending" \/ checkPc = "awaitLater"
    /\ ~Due(timeoutId)
    /\ ~Due(retryId)
    /\ elapsed < MaxClock
    /\ elapsed' = elapsed + 1
    /\ UNCHANGED << outsidePoller, options, signal, checkPc, active,
                    currentInterval, timeoutId, retryId, pollError, threwAt,
                    invocations, usableAt, usable, promise >>

\* the steps of the event loop that are always eventually taken: code that
\* is ready to run, timers that are due, and time
PollerProgress ==
    \/ \E latency \in {"awaitNow", "awaitLater"} : CheckHead(latency)
    \/ checkPc = "awaitNow" /\ \E value \in UsableValues : PredicateUsable(value)
    \/ checkPc = "awaitNow" /\
         \E outcome \in FalsyValues \cup PredicateThrows : PredicateUnusable(outcome)
    \/ TimeoutFires
    \/ RetryFires
    \/ Tick

PollerNext ==
    \/ \E latency \in {"awaitNow", "awaitLater"} : CheckHead(latency)
    \/ \E value \in UsableValues : PredicateUsable(value)
    \/ \E outcome \in FalsyValues \cup PredicateThrows : PredicateUnusable(outcome)
    \/ TimeoutFires
    \/ RetryFires
    \/ \E reason \in AbortReasons : AbortFires(reason)
    \/ Tick

PollerSpec == PollerInit /\ [][PollerNext]_vars

\* a predicate in flight may never complete and a signal may never fire;
\* everything else of the event loop happens
FairPollerSpec == PollerInit /\ [][PollerNext]_vars /\ WF_vars(PollerProgress)

(* ---------------- archive() with and without onProgress ---------------- *)

\* the candidate lists of the two compared runs
PairTaskLists == { [i \in 1..n |-> i] : n \in 0..MaxPairTasks }

\* the onProgress argument of the other run
OtherSink(callback) == IF callback = "none" THEN "record" ELSE "none"

\* Two runs over the same candidates and the same page, one called with an
\* onProgress callback and one without. The run in the variables leads.
PairInit ==
    /\ tasks \in PairTaskLists
    /\ sink \in {"none", "record"}
    /\ InitRun
    /\ PollerOff
    /\ LibraryOff
    /\ phase = "lead"
    /\ twin = TwinAtStart(OtherSink(sink))

\* the leading run takes any step of archive(), of its timers, or of the
\* host page, with any outcome of the collaborators
LeaderStep ==
    /\ phase = "lead"
    /\ Observable = twin.run
    /\ RunStep \/ HostStep

\* the runs change places: the one in the variables is put aside and the
\* one put aside is taken up, after the leader's step and again after the
\* follower's
Swap ==
    /\ \/ phase = "lead" /\ Observable # twin.run
       \/ phase = "follow" /\ Observable = twin.run
    /\ phase' = IF phase = "lead" THEN "follow" ELSE "lead"
    /\ twin' = [sink |-> sink, events |-> events, run |-> Observable]
    /\ sink' = twin.sink
    /\ events' = twin.events
    /\ rowState' = twin.run.rowState
    /\ pc' = twin.run.pc
    /\ idx' = twin.run.idx
    /\ processed' = twin.run.processed
    /\ archivedCount' = twin.run.archivedCount
    /\ failures' = twin.run.failures
    /\ attempts' = twin.run.attempts
    /\ lastError' = twin.run.lastError
    /\ menu' = twin.run.menu
    /\ attemptResult' = twin.run.attemptResult
    /\ opens' = twin.run.opens
    /\ clicks' = twin.run.clicks
    /\ confirms' = twin.run.confirms
    /\ retryDelays' = twin.run.retryDelays
    /\ betweenDelays' = twin.run.betweenDelays
    /\ detachedAtCall' = twin.run.detachedAtCall
    /\ result' = twin.run.result
    /\ summary' = twin.run.summary
    /\ rejection' = twin.run.rejection
    /\ UNCHANGED << tasks, poller, library, panel, storage, content >>

\* the following run takes the step the leader took: the same step of the
\* code, timer or page with the same outcome, which is the one that brings
\* it to the page, the steps, the delays and the result of the leader
FollowerStep ==
    /\ phase = "follow"
    /\ Observable # twin.run
    /\ RunStep \/ HostStep
    /\ Observable' = twin.run

PairNext == LeaderStep \/ Swap \/ FollowerStep

PairSpec == PairInit /\ [][PairNext]_vars

(* ---------------- waitForPredicate: the backoff ---------------- *)

\* the options of the waits whose delays are followed: no timeout, so that
\* every check that finds nothing schedules the next
BackoffOptions ==
    [timeout : {Infinity},
     interval : 1..MaxDelay,
     maxInterval : 1..MaxDelay,
     backoffFactor : 0..MaxBackoff]

\* the state that does not belong to the backoff of the wait
outsideBackoff ==
    << archiveVars, pair, panel, storage, content, signal, elapsed, checkPc, active, timeoutId,
       retryId, pollError, threwAt, invocations, usableAt, usable, promise >>

\* let currentInterval = interval, before the first check
BackoffInit ==
    /\ options \in BackoffOptions
    /\ currentInterval = options.interval
    /\ delays = << >>
    /\ signal = NoSignal
    /\ elapsed = 0
    /\ checkPc = "off"
    /\ active = FALSE
    /\ timeoutId = {}
    /\ retryId = {}
    /\ pollError = Undefined
    /\ threwAt = 0
    /\ invocations = 0
    /\ usableAt = 0
    /\ usable = Undefined
    /\ promise = Pending
    /\ WaitForOff
    /\ ScanOff
    /\ PanelOff
    /\ StorageOff
    /\ ContentOff
    /\ tasks = << >>
    /\ sink = "none"
    /\ InitRun
    /\ PairOff

\* a check found nothing usable: the next interval is computed and the
\* re-check is scheduled after it
Recheck ==
    /\ Len(delays) < MaxChecks
    /\ currentInterval' = NextInterval(currentInterval, options)
    /\ delays' = Append(delays, currentInterval')
    /\ UNCHANGED << outsideBackoff, options, dom, elementPromise, scanned >>

BackoffNext == Recheck

BackoffSpec == BackoffInit /\ [][BackoffNext]_vars

(* ---------------- waitFor ---------------- *)

\* mutant of QuerySelector: an element is returned whether or not the root
\* holds a match
QuerySelectorAlwaysFinds(document) == Returns("element")

\* root.querySelector(selector): the first matching element, or null
QuerySelector(document) ==
    IF document = "present" THEN Returns("element") ELSE Returns("null")

\* waitFor(selector, {root, ...options}): waitForPredicate is called with
\* the query as predicate and the page has or has not the element yet
WaitForInit ==
    /\ PollerCall
    /\ dom \in {"absent", "present"}
    /\ elementPromise = Pending
    /\ BackoffOff
    /\ ScanOff
    /\ PanelOff
    /\ StorageOff
    /\ ContentOff
    /\ tasks = << >>
    /\ sink = "none"
    /\ InitRun
    /\ PairOff

\* check() runs the query: its value is there at once
QueryCheck == CheckHead("awaitNow")

\* check() goes on with the value of the query
QueryResult ==
    LET value == QuerySelector(dom)
    IN  IF value \in UsableValues
          THEN PredicateUsable(value)
          ELSE PredicateUnusable(value)

\* .then((element) => { if (!element) throw createTimeoutError(...);
\* return element }); a rejection of waitForPredicate passes through
ThenElement ==
    /\ elementPromise.state = "pending"
    /\ promise.state # "pending"
    /\ elementPromise' =
          IF promise.state = "resolved"
            THEN IF promise.value \in FalsyValues
                   THEN Rejected(TimeoutError)
                   ELSE Resolved(promise.value)
            ELSE promise
    /\ UNCHANGED << archiveVars, poller, pair, panel, storage, content,
                    delays, dom, scanned >>

\* the host page adds a matching element under the root
ElementAppears ==
    /\ ~Busy
    /\ dom = "absent"
    /\ dom' = "present"
    /\ UNCHANGED << archiveVars, poller, pair, panel, storage, content,
                    delays, elementPromise, scanned >>

\* the host page removes the matching element
ElementRemoved ==
    /\ ~Busy
    /\ dom = "present"
    /\ dom' = "absent"
    /\ UNCHANGED << archiveVars, poller, pair, panel, storage, content,
                    delays, elementPromise, scanned >>

\* code that is ready to run, timers that are due, and time
WaitForProgress ==
    \/ QueryCheck
    \/ QueryResult
    \/ ThenElement
    \/ TimeoutFires
    \/ RetryFires
    \/ Tick

WaitForNext ==
    \/ QueryCheck
    \/ QueryResult
    \/ ThenElement
    \/ TimeoutFires
    \/ RetryFires
    \/ \E reason \in AbortReasons : AbortFires(reason)
    \/ Tick
    \/ ElementAppears
    \/ ElementRemoved

\* the event loop runs what is ready; the page and the signal are free
WaitForSpec == WaitForInit /\ [][WaitForNext]_vars /\ WF_vars(WaitForProgress)

(* ---------------- the panel store ---------------- *)

\* the statusMessage argument of setPanelEnabled when none is given
NoStatusMessage == "(undefined)"

StatusArguments == {NoStatusMessage, "", "Codex tasks detected"}

\* what scan() does when scanMatches calls it: it returns a number of
\* candidates, or throws
ScanOutcomes == 0..MaxMatches \cup {-1}

\* an archive() run of the store: the number of tasks, how many are
\* processed, where it is suspended, and whether its tasks are still the
\* candidates of the entries of matches
Flight(count) ==
    [total |-> count, processed |-> 0, stage |-> "attempt", current |-> TRUE]

\* the runs in flight after matches was replaced by other entries
Orphaned(runs) == [r \in DOMAIN runs |-> [runs[r] EXCEPT !.current = FALSE]]

\* addToast(tone, message)
AddToast(s, tone) == [s EXCEPT !.toasts = @ + 1]

ToastRoom == store.toasts < MaxToasts

\* initialize()
Initialized(s) ==
    IF ~s.panelEnabled
      THEN [s EXCEPT !.statusMessage =
                         IF @ = "" THEN "Waiting for Codex tasks" ELSE @]
      ELSE IF ~s.ready
             THEN [s EXCEPT !.ready = TRUE, !.statusMessage = "Ready to scan"]
             ELSE s

\* mutant of PanelEnabledSet: disabling the panel leaves the dialog as it is
PanelEnabledSetKeepsDialog(s, enabled, message) ==
    LET set == [s EXCEPT
                  !.panelEnabled = enabled,
                  !.ready = IF enabled THEN @ ELSE FALSE,
                  !.scanning = IF enabled THEN @ ELSE FALSE,
                  !.archiving = IF enabled THEN @ ELSE FALSE,
                  !.matches = IF enabled THEN @ ELSE << >>,
                  !.statusMessage =
                      IF message # NoStatusMessage THEN message
                      ELSE IF enabled THEN @
                      ELSE "Codex tasks not detected"]
    IN  IF enabled THEN Initialized(set) ELSE set

\* setPanelEnabled(enabled, statusMessage)
PanelEnabledSet(s, enabled, message) ==
    LET set == [s EXCEPT
                  !.panelEnabled = enabled,
                  !.ready = IF enabled THEN @ ELSE FALSE,
                  !.scanning = IF enabled THEN @ ELSE FALSE,
                  !.archiving = IF enabled THEN @ ELSE FALSE,
                  !.matches = IF enabled THEN @ ELSE << >>,
                  !.confirmVisible = IF enabled THEN @ ELSE FALSE,
                  !.statusMessage =
                      IF message # NoStatusMessage THEN message
                      ELSE IF enabled THEN @
                      ELSE "Codex tasks not detected"]
    IN  IF enabled THEN Initialized(set) ELSE set

\* mutant of Occupied: the guard only looks at scanning
OccupiedWhileScanning(s) == s.scanning

\* if (scanning || archiving) return
Occupied(s) == s.scanning \/ s.archiving

\* if (!panelEnabled || !ready)
NotLoaded(s) == ~s.panelEnabled \/ ~s.ready

\* mutant of NeedsConfirmation: requestArchive does not look at the flag
NeedsConfirmationNever(s) == FALSE

\* if (!confirmAcknowledged)
NeedsConfirmation(s) == ~s.confirmAcknowledged

\* the callback handed to archive(), called with a progress event of the
\* given status for the task at the given place; entries whose candidate is
\* not the task of the event are left as they are
OnProgress(s, status, place, current) ==
    [s EXCEPT
       !.matches =
           [i \in DOMAIN @ |->
              IF status = "pending" THEN "pending"
              ELSE IF ~(current /\ i = place) THEN @[i]
              ELSE IF status = "attempt" THEN "processing"
              ELSE IF status \in {"archived", "failed"} THEN status
              ELSE @[i]],
       !.statusMessage = "progress.message"]

\* confirmArchive() past its guards: the flag, the fields of the run, and
\* archive() up to its first await, which emits "pending" and the first
\* "attempt"
ArchiveStarted(s) ==
    LET begun == [s EXCEPT !.confirmAcknowledged = TRUE,
                           !.archiving = TRUE,
                           !.confirmVisible = FALSE,
                           !.statusMessage = "Archiving nerch tasks"]
    IN  OnProgress(OnProgress(begun, "pending", 0, TRUE), "attempt", 1, TRUE)

\* the state outside the panel store
outsidePanel == << archiveVars, poller, pair, library, storage, content >>

\* initialize()
Initialize ==
    /\ store' = Initialized(store)
    /\ UNCHANGED << flights, runsStarted, savedAck >>
    /\ UNCHANGED outsidePanel


\* setPanelEnabled(enabled, statusMessage)
SetPanelEnabled(enabled, message) ==
    /\ store' = PanelEnabledSet(store, enabled, message)
    /\ flights' = IF enabled THEN flights ELSE Orphaned(flights)
    /\ UNCHANGED << runsStarted, savedAck >>
    /\ UNCHANGED outsidePanel


\* setConfirmAcknowledged(value)
SetConfirmAcknowledged(value) ==
    /\ store' = [store EXCEPT !.confirmAcknowledged = value]
    /\ UNCHANGED << flights, runsStarted, savedAck >>
    /\ UNCHANGED outsidePanel


\* dismissToast(id) with the id of a toast of the list
DismissToast ==
    /\ store.toasts > 0
    /\ store' = [store EXCEPT !.toasts = @ - 1]
    /\ UNCHANGED << flights, runsStarted, savedAck >>
    /\ UNCHANGED outsidePanel


\* scanMatches(): it has no await, so it runs to its end in one step
ScanMatches(outcome) ==
    /\ IF Occupied(store)
         THEN UNCHANGED << store, flights >>
         ELSE IF NotLoaded(store)
           THEN /\ ToastRoom
                /\ store' = AddToast(store, "info")
                /\ UNCHANGED flights
           ELSE /\ ToastRoom
                /\ flights' = Orphaned(flights)
                /\ store' =
                     IF outcome = -1
                       THEN AddToast([store EXCEPT
                                        !.scanning = FALSE,
                                        !.matches = << >>,
                                        !.confirmVisible = FALSE,
                                        !.statusMessage = "Scan failed"],
                                     "error")
                       ELSE AddToast([store EXCEPT
                                        !.scanning = FALSE,
                                        !.matches = [i \in 1..outcome |-> "pending"],
                                        !.confirmVisible = FALSE,
                                        !.statusMessage =
                                            IF outcome > 0 THEN "Found nerch tasks"
                                            ELSE "No nerch tasks detected"],
                                     IF outcome = 0 THEN "info" ELSE "success")
    /\ UNCHANGED << runsStarted, savedAck >>
    /\ UNCHANGED outsidePanel


\* confirmArchive() up to its await of archive()
ConfirmArchiveCall ==
    IF Occupied(store)
      THEN UNCHANGED << store, flights, runsStarted, savedAck >>
      ELSE IF NotLoaded(store)
        THEN /\ ToastRoom
             /\ store' = AddToast([store EXCEPT !.confirmVisible = FALSE], "info")
             /\ UNCHANGED << flights, runsStarted, savedAck >>
        ELSE IF Len(store.matches) = 0
          THEN /\ store' = [store EXCEPT !.confirmVisible = FALSE]
               /\ UNCHANGED << flights, runsStarted, savedAck >>
          ELSE /\ runsStarted < MaxRuns
               /\ savedAck' = (savedAck \/ ~store.confirmAcknowledged)
               /\ store' = ArchiveStarted(store)
               /\ flights' = Append(flights, Flight(Len(store.matches)))
               /\ runsStarted' = runsStarted + 1

ConfirmArchive ==
    /\ ConfirmArchiveCall
    /\ UNCHANGED outsidePanel

\* requestArchive()
RequestArchive ==
    /\ IF Occupied(store)
         THEN UNCHANGED << store, flights, runsStarted, savedAck >>
         ELSE IF NotLoaded(store)
           THEN /\ ToastRoom
                /\ store' = AddToast(store, "info")
                /\ UNCHANGED << flights, runsStarted, savedAck >>
           ELSE IF Len(store.matches) = 0
             THEN /\ ToastRoom
                  /\ store' = AddToast(store, "info")
                  /\ UNCHANGED << flights, runsStarted, savedAck >>
             ELSE IF NeedsConfirmation(store)
               THEN /\ store' = [store EXCEPT !.confirmVisible = TRUE]
                    /\ UNCHANGED << flights, runsStarted, savedAck >>
               ELSE ConfirmArchiveCall
    /\ UNCHANGED outsidePanel


\* cancelArchive()
CancelArchive ==
    /\ store' = IF store.archiving THEN store
                ELSE [store EXCEPT !.confirmVisible = FALSE]
    /\ UNCHANGED << flights, runsStarted, savedAck >>
    /\ UNCHANGED outsidePanel


\* the runs in flight without the r-th
Landed(r) == [k \in 1..(Len(flights) - 1) |-> IF k < r THEN flights[k] ELSE flights[k + 1]]

\* attemptArchive of the current task of a run returns: "archived" or
\* "failed" is emitted; after the last task "complete" is emitted, archive()
\* returns and confirmArchive goes on after its await
FlightTaskDone(r, success) ==
    /\ r \in DOMAIN flights
    /\ flights[r].stage = "attempt"
    /\ LET flight == [flights[r] EXCEPT
                     !.processed = @ + 1,
                     !.stage = "delay"]
           told == OnProgress(store, IF success THEN "archived" ELSE "failed",
                              flight.processed, flight.current)
       IN  IF flight.processed < flight.total
             THEN /\ store' = told
                  /\ flights' = [flights EXCEPT ![r] = flight]
             ELSE /\ ToastRoom
                  /\ store' =
                       AddToast([OnProgress(told, "complete", 0, FALSE) EXCEPT
                                   !.archiving = FALSE,
                                   !.statusMessage = "Archived nerch tasks"],
                                "success or error")
                  /\ flights' = Landed(r)
    /\ UNCHANGED << runsStarted, savedAck >>
    /\ UNCHANGED outsidePanel


\* delay(ACTION_DELAY_MS) of a run is over: the loop takes the next task and
\* emits its "attempt"
FlightNextTask(r) ==
    /\ r \in DOMAIN flights
    /\ flights[r].stage = "delay"
    /\ store' = OnProgress(store, "attempt", flights[r].processed + 1,
                           flights[r].current)
    /\ flights' = [flights EXCEPT ![r].stage = "attempt"]
    /\ UNCHANGED << runsStarted, savedAck >>
    /\ UNCHANGED outsidePanel


StoreInit ==
    /\ PanelOff
    /\ StorageOff
    /\ ContentOff
    /\ BackoffOff
    /\ WaitForOff
    /\ ScanOff
    /\ PollerOff
    /\ tasks = << >>
    /\ sink = "none"
    /\ InitRun
    /\ PairOff

\* the panel store without the tally of its runs
StoreNext ==
    \/ Initialize /\ UNCHANGED tally
    \/ \E enabled \in BOOLEAN, message \in StatusArguments :
          SetPanelEnabled(enabled, message) /\ UNCHANGED tally
    \/ \E value \in BOOLEAN : SetConfirmAcknowledged(value) /\ UNCHANGED tally
    \/ DismissToast /\ UNCHANGED tally
    \/ \E outcome \in ScanOutcomes : ScanMatches(outcome) /\ UNCHANGED tally
    \/ RequestArchive /\ UNCHANGED tally
    \/ CancelArchive /\ UNCHANGED tally
    \/ ConfirmArchive /\ UNCHANGED tally
    \/ \E r \in 1..MaxRuns, success \in BOOLEAN :
          FlightTaskDone(r, success) /\ UNCHANGED tally
    \/ \E r \in 1..MaxRuns : FlightNextTask(r) /\ UNCHANGED tally

StoreSpec == StoreInit /\ [][StoreNext]_vars

(* ---------------- the panel store and the summaries of its runs ---------------- *)

\* archive() starts with archivedCount = 0
NoTally == [archived |-> 0, enabled |-> TRUE]

\* the tally when confirmArchive may have started a run
TallyStarted ==
    IF Len(flights') > Len(flights) THEN Append(tally, NoTally) ELSE tally

\* the tally after setPanelEnabled(false)
TallyDisabled == [r \in DOMAIN tally |-> [tally[r] EXCEPT !.enabled = FALSE]]

\* archivedCount += 1 of run r when its attempt succeeded
TallyCounted(r, success) ==
    [tally EXCEPT ![r].archived = IF success THEN @ + 1 ELSE @]

\* the tally after a task of run r is done: the run may have returned
TallyDone(r, success) ==
    IF Len(flights') = Len(flights)
      THEN TallyCounted(r, success)
      ELSE [k \in 1..(Len(tally) - 1) |-> IF k < r THEN tally[k] ELSE tally[k + 1]]

StoreRunNext ==
    \/ Initialize /\ UNCHANGED tally
    \/ \E message \in StatusArguments :
          SetPanelEnabled(TRUE, message) /\ UNCHANGED tally
    \/ \E message \in StatusArguments :
          SetPanelEnabled(FALSE, message) /\ tally' = TallyDisabled
    \/ \E value \in BOOLEAN : SetConfirmAcknowledged(value) /\ UNCHANGED tally
    \/ DismissToast /\ UNCHANGED tally
    \/ \E outcome \in ScanOutcomes : ScanMatches(outcome) /\ UNCHANGED tally
    \/ RequestArchive /\ tally' = TallyStarted
    \/ CancelArchive /\ UNCHANGED tally
    \/ ConfirmArchive /\ tally' = TallyStarted
    \/ \E r \in 1..MaxRuns, success \in BOOLEAN :
          FlightTaskDone(r, success) /\ tally' = TallyDone(r, success)
    \/ \E r \in 1..MaxRuns : FlightNextTask(r) /\ UNCHANGED tally

StoreRunSpec == StoreInit /\ [][StoreRunNext]_vars

(* ---------------- the keyword settings ---------------- *)

\* DEFAULT_MATCH_KEYWORDS = ["nerch"]
DEFAULT_MATCH_KEYWORDS == << << "n", "e", "r", "c", "h" >> >>

\* the characters of the keywords that are saved: a blank, a lower-case
\* letter and its upper-case form
Chars == {" ", "a", "A"}

\* a keyword is a string: the sequence of its characters
Keywords == UNION { [1..n -> Chars] : n \in 0..MaxKeywordLen }

KeywordLists == UNION { [1..n -> Keywords] : n \in 0..MaxKeywords }

\* an array entry that is not a string: one token in the place of the
\* characters
NotAString == << "(number)" >>

\* the arrays a foreign writer may have stored in the keywords field
ItemLists == UNION { [1..n -> Keywords \cup {NotAString}] : n \in 0..MaxKeywords }

\* what the storage may hold under MATCH_SETTINGS_KEY
StoredValues ==
    {NoKeywords, NotAnObject, NoKeywordsArray}
        \cup { SomeKeywords(items) : items \in ItemLists }

\* an array value, and a value that is not an array
Array(list) == [array |-> TRUE, items |-> list]
NotAnArray == [array |-> FALSE, items |-> << >>]

\* const { keywords } = stored
KeywordsOf(value) == IF value.array THEN Array(value.keywords) ELSE NotAnArray

\* .filter((item): item is string => typeof item === "string")
Strings(list) == SelectSeq(list, LAMBDA item : item # NotAString)

RECURSIVE TrimStart(_)
TrimStart(keyword) ==
    IF keyword # << >> /\ Head(keyword) = " "
      THEN TrimStart(Tail(keyword))
      ELSE keyword

RECURSIVE TrimEnd(_)
TrimEnd(keyword) ==
    IF keyword # << >> /\ keyword[Len(keyword)] = " "
      THEN TrimEnd(SubSeq(keyword, 1, Len(keyword) - 1))
      ELSE keyword

\* keyword.trim()
Trim(keyword) == TrimEnd(TrimStart(keyword))

\* mutant of ToLowerCase: the keyword is kept as it is written
ToLowerCaseKept(keyword) == keyword

\* keyword.toLowerCase()
ToLowerCase(keyword) ==
    [i \in DOMAIN keyword |-> IF keyword[i] = "A" THEN "a" ELSE keyword[i]]

\* .filter((keyword) => keyword.length > 0)
RECURSIVE NonEmpty(_)
NonEmpty(list) ==
    IF list = << >> THEN << >>
    ELSE IF Head(list) = << >> THEN NonEmpty(Tail(list))
    ELSE << Head(list) >> \o NonEmpty(Tail(list))

\* Array.from(new Set(list)): the first of equal entries is kept
RECURSIVE Unique(_)
Unique(list) ==
    IF list = << >> THEN << >>
    ELSE LET front == Unique(SubSeq(list, 1, Len(list) - 1))
             last == list[Len(list)]
         IN  IF \E i \in DOMAIN front : front[i] = last
               THEN front
               ELSE Append(front, last)

\* mutant of sanitizeKeywords: an array without a keyword is returned empty
sanitizeKeywordsNoFallback(value) ==
    IF ~value.array
      THEN DEFAULT_MATCH_KEYWORDS
      ELSE LET strings == Strings(value.items)
               normalized == NonEmpty([i \in DOMAIN strings |-> Trim(strings[i])])
           IN  Unique([i \in DOMAIN normalized |-> ToLowerCase(normalized[i])])

\* sanitizeKeywords(value)
sanitizeKeywords(value) ==
    IF ~value.array
      THEN DEFAULT_MATCH_KEYWORDS
      ELSE LET strings == Strings(value.items)
               normalized == NonEmpty([i \in DOMAIN strings |-> Trim(strings[i])])
               unique == Unique([i \in DOMAIN normalized |->
                                    ToLowerCase(normalized[i])])
           IN  IF Len(unique) > 0 THEN unique ELSE DEFAULT_MATCH_KEYWORDS

\* the state outside the keyword settings
outsideStorage == << archiveVars, poller, pair, library, panel, content >>

\* the storage is empty and the caller holds settings with any keywords
StorageInit ==
    /\ settings \in { SomeKeywords(keywords) : keywords \in KeywordLists }
    /\ stored = NoKeywords
    /\ loaded = NoKeywords
    /\ sinceSave = "none"
    /\ ContentOff
    /\ BackoffOff
    /\ WaitForOff
    /\ ScanOff
    /\ PanelOff
    /\ PollerOff
    /\ tasks = << >>
    /\ sink = "none"
    /\ InitRun
    /\ PairOff

\* saveMatchSettings({ keywords }): the sanitized list is stored
saveMatchSettings(keywords) ==
    /\ settings' = SomeKeywords(keywords)
    /\ stored' = SomeKeywords(sanitizeKeywords(Array(keywords)))
    /\ sinceSave' = "saved"
    /\ UNCHANGED << loaded, outsideStorage >>

\* loadMatchSettings(): the default list when nothing or no object is
\* stored, else the keywords field of the stored object sanitized
loadMatchSettings ==
    /\ loaded' = SomeKeywords(IF ~stored.set \/ ~stored.object
                                THEN DEFAULT_MATCH_KEYWORDS
                                ELSE sanitizeKeywords(KeywordsOf(stored)))
    /\ sinceSave' = IF sinceSave = "none" THEN "none" ELSE "loaded"
    /\ UNCHANGED << settings, stored, outsideStorage >>

\* clearPersistedState()
clearPersistedState ==
    /\ stored' = NoKeywords
    /\ sinceSave' = "none"
    /\ UNCHANGED << settings, loaded, outsideStorage >>

\* the settings that were loaded are saved
saveLoaded ==
    /\ loaded.set
    /\ saveMatchSettings(loaded.keywords)

StorageNext ==
    \/ saveMatchSettings(settings.keywords)
    \/ saveLoaded
    \/ loadMatchSettings
    \/ clearPersistedState

StorageSpec == StorageInit /\ [][StorageNext]_vars

\* the storage holds any value, written by this or by other code, and the
\* caller holds the default settings
StoredInit ==
    /\ settings = SomeKeywords(DEFAULT_MATCH_KEYWORDS)
    /\ stored \in StoredValues
    /\ loaded = NoKeywords
    /\ sinceSave = "none"
    /\ ContentOff
    /\ BackoffOff
    /\ WaitForOff
    /\ ScanOff
    /\ PanelOff
    /\ PollerOff
    /\ tasks = << >>
    /\ sink = "none"
    /\ InitRun
    /\ PairOff

StoredSpec == StoredInit /\ [][StorageNext]_vars

(* ---------------- scan() ---------------- *)

\* a task row of the page: whether isVisible holds of it, whether isNerch
\* holds of its title and tags, and whether root.querySelectorAll returns
\* it twice, as the row and through the task link inside it
Rows == [visible : BOOLEAN, nerch : BOOLEAN, linked : BOOLEAN]

Pages == UNION { [1..n -> Rows] : n \in 0..MaxRows }

\* root.querySelectorAll(SELECTORS.taskRow) with a link mapped to its row:
\* the places of the rows, a linked row twice
RECURSIVE Queried(_, _)
Queried(rows, from) ==
    IF from > Len(rows) THEN << >>
    ELSE (IF rows[from].linked THEN << from, from >> ELSE << from >>)
           \o Queried(rows, from + 1)

\* getTaskRows(root): each row once
getTaskRows(rows) == Unique(Queried(rows, 1))

\* .slice(0, count)
Slice(list, count) ==
    SubSeq(list, 1, IF Len(list) < count THEN Len(list) ELSE count)

\* mutant of scan: the rows are capped after the keyword match
scanCappedLast(rows) ==
    Slice(SelectSeq(SelectSeq(getTaskRows(rows), LAMBDA i : rows[i].visible),
                    LAMBDA i : rows[i].nerch),
          ScanCap)

\* scan(root): the visible rows, capped, then those isNerch holds of
scan(rows) ==
    SelectSeq(Slice(SelectSeq(getTaskRows(rows), LAMBDA i : rows[i].visible),
                    ScanCap),
              LAMBDA i : rows[i].nerch)

\* a page with any task rows, before it is scanned
ScanInit ==
    /\ page \in Pages
    /\ candidates = NoScan
    /\ BackoffOff
    /\ WaitForOff
    /\ PanelOff
    /\ StorageOff
    /\ ContentOff
    /\ PollerOff
    /\ tasks = << >>
    /\ sink = "none"
    /\ InitRun
    /\ PairOff

\* scan() is called
Scan ==
    /\ candidates' = [done |-> TRUE, rows |-> scan(page)]
    /\ UNCHANGED << page, archiveVars, poller, pair, panel, storage, content,
                    delays, dom, elementPromise >>

\* the host page shows or hides a task row
HostShowsOrHides(i) ==
    /\ i \in DOMAIN page
    /\ page' = [page EXCEPT ![i].visible = ~@]
    /\ candidates' = NoScan
    /\ UNCHANGED << archiveVars, poller, pair, panel, storage, content,
                    delays, dom, elementPromise >>

ScanNext ==
    \/ Scan
    \/ \E i \in 1..MaxRows : HostShowsOrHides(i)

ScanSpec == ScanInit /\ [][ScanNext]_vars

(* ---------------- the content script ---------------- *)

\* pathnames, cut after their first six characters
Paths == { << "/" >>, << "/codex" >>, << "/codex", "/tasks" >> }

\* mutant of isCodexRoute: every route is taken for a Codex route
isCodexRouteAnywhere(path) == TRUE

\* pathname.startsWith("/codex")
isCodexRoute(path) == path[1] = "/codex"

\* detectTaskList()
detectTaskList == taskList

\* mutant of Differs: every evaluation is reported
DiffersAlways(available, last) == TRUE

\* if (available !== previous)
Differs(available, last) == available # last

\* the onAvailabilityChange callback mountPanel hands to createTaskObserver
AvailabilityChanged(s, available) ==
    IF available
      THEN PanelEnabledSet(s, TRUE, NoStatusMessage)
      ELSE PanelEnabledSet(s, FALSE, "Waiting for Codex tasks")

\* evaluate() of an observer whose previous is `last` and which has reported
\* `told`, over the panel store s
Evaluated(s, last, told) ==
    IF Differs(detectTaskList, last)
      THEN [previous |-> detectTaskList,
            reports |-> Append(told, detectTaskList),
            store |-> AvailabilityChanged(s, detectTaskList)]
      ELSE [previous |-> last, reports |-> told, store |-> s]

\* mountPanel after readPanelPreferences(): the store takes the saved flag
\* and is disabled until the observer reports the task list
PreferencesApplied(s, acknowledged) ==
    PanelEnabledSet([s EXCEPT !.confirmAcknowledged = acknowledged],
                    FALSE, "Waiting for Codex tasks")

\* what ensurePanelForRoute may write
ensureVars == << mounting, cleaningPanel, mountCalls, hosts, offsetStyle,
                connected, records, store >>

\* the state outside the content script and the flags of the panel store
outsideContent == << archiveVars, poller, pair, library, storage, flights,
                    runsStarted, savedAck, tally >>

\* mounting = true; mountPanel() up to its return for an existing host, or
\* up to its await with the host appended to the body
MountPanelCall ==
    /\ Len(mountCalls) < MaxMounts
    /\ mounting' = TRUE
    /\ IF hosts > 0
         THEN /\ mountCalls' = Append(mountCalls, "existing")
              /\ UNCHANGED << hosts, records >>
         ELSE /\ mountCalls' = Append(mountCalls, "preferences")
              /\ hosts' = hosts + 1
              /\ records' = (records \/ connected)
    /\ UNCHANGED << cleaningPanel, offsetStyle, connected, store >>

\* mutant of CleanPanel: the cleanup leaves the host in the document
CleanPanelKeepsHost ==
    /\ cleaningPanel' = "null"
    /\ IF cleaningPanel = "unmount"
         THEN /\ connected' = FALSE
              /\ records' = FALSE
              /\ offsetStyle' = FALSE
              /\ store' = PanelEnabledSet(store, FALSE, "Codex tasks not detected")
              /\ UNCHANGED hosts
         ELSE UNCHANGED << connected, records, offsetStyle, hosts, store >>
    /\ UNCHANGED << mounting, mountCalls >>

\* cleaningPanel(); cleaningPanel = null. The cleanup of a panel disconnects
\* the observer, unmounts the root (whose effect cleanup writes the offset
\* once more), removes the offset and the host, and disables the store
CleanPanel ==
    /\ cleaningPanel' = "null"
    /\ IF cleaningPanel = "unmount"
         THEN /\ connected' = FALSE
              /\ records' = FALSE
              /\ offsetStyle' = FALSE
              /\ hosts' = IF hosts > 0 THEN hosts - 1 ELSE 0
              /\ store' = PanelEnabledSet(store, FALSE, "Codex tasks not detected")
         ELSE UNCHANGED << connected, records, offsetStyle, hosts, store >>
    /\ UNCHANGED << mounting, mountCalls >>

\* mutant of EnsureSkips: a mount in progress does not stop the next call
EnsureNeverSkips == FALSE

\* if (mounting) return
EnsureSkips == mounting

\* ensurePanelForRoute() when window.location.pathname is `path`, up to its
\* await of mountPanel()
ensurePanelForRoute(path) ==
    IF EnsureSkips
      THEN UNCHANGED ensureVars
      ELSE IF isCodexRoute(path)
        THEN IF cleaningPanel = "null"
               THEN MountPanelCall
               ELSE UNCHANGED ensureVars
        ELSE IF cleaningPanel # "null"
               THEN CleanPanel
               ELSE UNCHANGED ensureVars

\* run() past its flag: await ensurePanelForRoute(); the interval and the
\* listeners are installed once that call has returned
InitialCall ==
    /\ runPc = "start"
    /\ ensurePanelForRoute(pathname)
    /\ runPc' = IF mounting' THEN "awaitInitial" ELSE "listening"
    /\ UNCHANGED << pathname, taskList, previous, reports >>
    /\ UNCHANGED outsideContent

\* the interval fires, or popstate or hashchange is dispatched
RouteCheck ==
    /\ runPc = "listening"
    /\ ensurePanelForRoute(pathname)
    /\ UNCHANGED << pathname, runPc, taskList, previous, reports >>
    /\ UNCHANGED outsideContent

\* the page calls the patched pushState or replaceState
HistoryChanges(path) ==
    /\ runPc = "listening"
    /\ pathname' = path
    /\ ensurePanelForRoute(path)
    /\ UNCHANGED << runPc, taskList, previous, reports >>
    /\ UNCHANGED outsideContent

\* the pathname changes and no listener of the script is called
LocationChanges(path) ==
    /\ path # pathname
    /\ pathname' = path
    /\ UNCHANGED << runPc, taskList, previous, reports >>
    /\ UNCHANGED ensureVars
    /\ UNCHANGED outsideContent

\* the calls in progress without the i-th
Returned(calls, i) ==
    [k \in 1..(Len(calls) - 1) |-> IF k < i THEN calls[k] ELSE calls[k + 1]]

\* a call of mountPanel returns: after readPanelPreferences() the store is
\* set up, the offset written, the root rendered and createTaskObserver
\* called, which evaluates once; then cleaningPanel is assigned and
\* mounting reset by ensurePanelForRoute
MountPanelReturns(i) ==
    /\ i \in DOMAIN mountCalls
    /\ IF mountCalls[i] = "existing"
         THEN /\ cleaningPanel' = "nothing"
              /\ UNCHANGED << offsetStyle, previous, connected, records,
                              reports, store >>
         ELSE \E acknowledged \in BOOLEAN :
                LET seen == Evaluated(PreferencesApplied(store, acknowledged),
                                      FALSE, << >>)
                IN  /\ cleaningPanel' = "unmount"
                    /\ offsetStyle' = TRUE
                    /\ previous' = seen.previous
                    /\ reports' = seen.reports
                    /\ store' = seen.store
                    /\ connected' = TRUE
                    /\ records' = FALSE
    /\ mountCalls' = Returned(mountCalls, i)
    /\ mounting' = FALSE
    /\ runPc' = IF runPc = "awaitInitial" THEN "listening" ELSE runPc
    /\ UNCHANGED << pathname, hosts, taskList >>
    /\ UNCHANGED outsideContent

\* the page changes the children of the body: the task list is there or
\* not afterwards, and a connected observer gets a record
PageMutates(available) ==
    /\ Len(reports) < MaxReports \/ available = taskList
    /\ taskList' = available
    /\ records' = (records \/ connected)
    /\ UNCHANGED << pathname, runPc, mounting, cleaningPanel, mountCalls,
                    hosts, offsetStyle, previous, connected, reports, store >>
    /\ UNCHANGED outsideContent

\* the MutationObserver callback: evaluate()
ObserverCallback ==
    /\ connected
    /\ records
    /\ LET seen == Evaluated(store, previous, reports)
       IN  /\ previous' = seen.previous
           /\ reports' = seen.reports
           /\ store' = seen.store
    /\ records' = FALSE
    /\ UNCHANGED << pathname, runPc, mounting, cleaningPanel, mountCalls,
                    hosts, offsetStyle, taskList, connected >>
    /\ UNCHANGED outsideContent

\* run() has set its flag on a page at any route, with or without a task
\* list
ContentInit ==
    /\ pathname \in Paths
    /\ runPc = "start"
    /\ mounting = FALSE
    /\ cleaningPanel = "null"
    /\ mountCalls = << >>
    /\ hosts = 0
    /\ offsetStyle = FALSE
    /\ taskList \in BOOLEAN
    /\ previous = FALSE
    /\ connected = FALSE
    /\ records = FALSE
    /\ reports = << >>
    /\ PanelOff
    /\ StorageOff
    /\ BackoffOff
    /\ WaitForOff
    /\ ScanOff
    /\ PollerOff
    /\ tasks = << >>
    /\ sink = "none"
    /\ InitRun
    /\ PairOff

ContentNext ==
    \/ InitialCall
    \/ RouteCheck
    \/ \E path \in Paths : HistoryChanges(path)
    \/ \E path \in Paths : LocationChanges(path)
    \/ \E i \in 1..MaxMounts : MountPanelReturns(i)
    \/ \E available \in BOOLEAN : PageMutates(available)
    \/ ObserverCallback

ContentSpec == ContentInit /\ [][ContentNext]_vars

\* the first call is made, the interval keeps firing, and readPanelPreferences
\* answers; the page may or may not navigate or change
FairContentSpec ==
    /\ ContentInit
    /\ [][ContentNext]_vars
    /\ WF_vars(InitialCall)
    /\ WF_vars(RouteCheck)
    /\ WF_vars(\E i \in 1..MaxMounts : MountPanelReturns(i))
    /\ WF_vars(ObserverCallback)

(* ---------------- properties ---------------- *)

\* the last progress event handed to the sink
LastEvent == events[Len(events)]

\* the statuses of the two events that end a candidate
Terminal == {"archived", "failed"}

\* C1: every 'attempt' progress event carries current.attempt = 1, whatever
\* the position of its candidate in the input list.
C1_AttemptEventStartsAtOne ==
    \A i \in 1..Len(events) :
        events[i].status = "attempt" => events[i].current.attempt = 1

\* C2: the progress events of a run are 'pending', then for each candidate in
\* input order one 'attempt' event and one 'archived' or 'failed' event for
\* that same candidate, then one 'complete' event, which the sink has
\* received when the returned promise resolves.
C2_EventShape ==
    /\ sink = "none" => events = << >>
    /\ Len(events) <= 2 * total + 2
    /\ \A i \in 1..Len(events) :
         /\ i = 1 => events[i].status = "pending"
         /\ (i > 1 /\ i <= 2 * total + 1 /\ i % 2 = 0) =>
                /\ events[i].status = "attempt"
                /\ events[i].current.task = tasks[i \div 2]
         /\ (i > 1 /\ i <= 2 * total + 1 /\ i % 2 = 1) =>
                /\ events[i].status \in Terminal
                /\ events[i].current.task = tasks[(i - 1) \div 2]
         /\ i = 2 * total + 2 => events[i].status = "complete"
    /\ (result = "resolved" /\ sink = "record") =>
         /\ Len(events) = 2 * total + 2
         /\ LastEvent.status = "complete"

\* C2 witness: a resolved run over two candidates, the first failed and the
\* second archived, all six events delivered.
C2_Witness ==
    /\ result = "resolved"
    /\ sink = "record"
    /\ total = 2
    /\ Len(events) = 6
    /\ events[3].status = "failed"
    /\ events[5].status = "archived"

\* C3: in every progress event, archived + failed = processed, failed is the
\* length of the event's failures list, and processed <= total.
C3_EventCounts ==
    \A i \in 1..Len(events) :
        /\ events[i].archived + events[i].failed = events[i].processed
        /\ events[i].failed = Len(events[i].failures)
        /\ events[i].processed <= events[i].total

\* C3 witness: a 'failed' event was emitted after an 'archived' one.
C3_Witness ==
    /\ Len(events) >= 5
    /\ events[3].status = "archived"
    /\ events[5].status = "failed"
    /\ events[5].failed = 1
    /\ events[5].processed = 2

\* C4: along the event stream processed never decreases, it grows by exactly
\* 1 from a candidate's 'attempt' event to its terminal event and not
\* otherwise, and the failures list never gets shorter.
C4_ProcessedMonotone ==
    \A i \in 1..(Len(events) - 1) :
        /\ events[i + 1].processed >= events[i].processed
        /\ events[i + 1].processed =
             (IF events[i].status = "attempt"
                THEN events[i].processed + 1
                ELSE events[i].processed)
        /\ Len(events[i + 1].failures) >= Len(events[i].failures)

\* C4 witness: the stream reached processed = 2 with one failure listed.
C4_Witness ==
    /\ Len(events) >= 5
    /\ events[5].processed = 2
    /\ Len(events[5].failures) = 1
    /\ Len(events[3].failures) = 0

\* C5: the returned summary has total = N and archived + failed.length = N;
\* the 'complete' event carries that summary, and its total, archived and
\* failed counts are those of the event before it.
C5_Summary ==
    result = "resolved" =>
        /\ summary.total = Len(tasks)
        /\ summary.archived + Len(summary.failed) = Len(tasks)
        /\ sink = "record" =>
             /\ LastEvent.summary = summary
             /\ LastEvent.total = events[Len(events) - 1].total
             /\ LastEvent.archived = events[Len(events) - 1].archived
             /\ LastEvent.failed = events[Len(events) - 1].failed

\* C5 witness: a run over two candidates resolved with one archived and one
\* failed.
C5_Witness ==
    /\ result = "resolved"
    /\ sink = "record"
    /\ summary.total = 2
    /\ summary.archived = 1
    /\ Len(summary.failed) = 1

\* C6: under fairness of the run's steps and timers, every run eventually
\* resolves with a summary, its 'complete' event delivered.
C6_EventuallyResolves ==
    <>( /\ result = "resolved"
        /\ pc = "done"
        /\ summary.total = Len(tasks)
        /\ sink = "record" => LastEvent.status = "complete" )

\* C6 witness: a run resolved although a confirmation timed out and a
\* candidate exhausted its retries.
C6_Witness ==
    /\ result = "resolved"
    /\ total = 2
    /\ Len(summary.failed) >= 1
    /\ summary.failed[1].error = ErrNotInTime

\* C7: no error of an attempt step leaves archive(): the promise is never
\* rejected, what a step throws is kept as an Error in lastError (a non-Error
\* value wrapped), a failed attempt always leaves an error, every recorded
\* failure holds an Error and attempts = RETRIES, and a resolved run has
\* processed every candidate.
C7_StepErrorsAreCaptured ==
    /\ result # "rejected"
    /\ pc # "rejected"
    /\ lastError.kind \in {"undefined", "Error"}
    /\ pc \in {"attemptEnd", "retryDelay"} => lastError.kind = "Error"
    /\ \A i \in 1..Len(failures) :
         /\ failures[i].error.kind = "Error"
         /\ failures[i].attempts = RETRIES
    /\ result = "resolved" => processed = total /\ idx = total

\* C7 witness: the first candidate failed with the wrapped non-Error value a
\* step threw, and the second candidate was processed after it.
C7_Witness ==
    /\ result = "resolved"
    /\ total = 2
    /\ Len(failures) >= 1
    /\ failures[1].task = tasks[1]
    /\ failures[1].error = [kind |-> "Error", msg |-> "boom"]
    /\ processed = 2

\* C8: once the candidate loop has started, the promise of archive() is
\* never rejected, whatever the progress sink does.
C8_NeverRejectsInLoop ==
    idx >= 1 => result # "rejected"

\* the candidate at idx has its attempt result
Reported == idx >= 1 /\ pc \in {"attemptReturn", "betweenDelay", "loop", "done"}

\* C9: when the confirmation step ran in each of the k attempts made for a
\* candidate and succeeded in the k-th, exactly k attempts and k trigger
\* clicks were made, none follows, and the candidate's 'archived' event
\* carries current.attempt = k and success = true.
C9_RetryUntilSuccess ==
    (Reported /\ attemptResult.success /\ confirms = attempts) =>
        /\ attemptResult.attempts = attempts
        /\ attempts <= RETRIES
        /\ opens = attempts
        /\ clicks = attempts
        /\ (sink = "record" /\ pc \in {"betweenDelay", "loop"}) =>
             /\ LastEvent.status = "archived"
             /\ LastEvent.current =
                  [task |-> task, attempt |-> attempts, success |-> "true"]

\* C9 witness: a candidate archived on its second attempt, after the
\* confirmation of the first attempt timed out.
C9_Witness ==
    /\ Reported
    /\ pc = "loop"
    /\ sink = "record"
    /\ attemptResult.success
    /\ confirms = 2
    /\ attempts = 2
    /\ clicks = 2
    /\ LastEvent.status = "archived"

\* the candidate at idx exhausted its attempts without a confirmation
Exhausted == Reported /\ ~attemptResult.success

\* the exhausted candidate at idx is reported in a 'failed' event, in the
\* failures and in summary.failed, with attempts = RETRIES
ExhaustionReported ==
    pc # "attemptReturn" =>
        /\ failures[Len(failures)].task = task
        /\ failures[Len(failures)].attempts = RETRIES
        /\ (sink = "record" /\ pc # "done") =>
             /\ LastEvent.status = "failed"
             /\ LastEvent.current =
                  [task |-> task, attempt |-> RETRIES, success |-> "false"]
        /\ result = "resolved" =>
             \E i \in 1..Len(summary.failed) :
                 /\ summary.failed[i].task = task
                 /\ summary.failed[i].attempts = RETRIES

\* C10 as stated: for a candidate whose confirmation never succeeds exactly
\* RETRIES attempts are made, the archive trigger is invoked exactly RETRIES
\* times, and the candidate is reported failed with attempts = RETRIES.
C10_TriggerInvokedRetriesTimes ==
    Exhausted =>
        /\ attempts = RETRIES
        /\ clicks = RETRIES
        /\ ExhaustionReported

\* C10 amended: for a candidate whose confirmation never succeeds exactly
\* RETRIES attempts are made, the archive trigger is invoked at most once per
\* attempt, and exactly RETRIES times when the confirmation step ran in every
\* attempt, and the candidate is reported in a 'failed' event and in
\* summary.failed with attempts = RETRIES.
C10_ExhaustionAfterRetries ==
    Exhausted =>
        /\ attempts = RETRIES
        /\ attemptResult.attempts = RETRIES
        /\ opens = RETRIES
        /\ clicks <= RETRIES
        /\ confirms = RETRIES => clicks = RETRIES
        /\ ExhaustionReported

\* C10 witness: a candidate failed after RETRIES confirmations timed out.
C10_Witness ==
    /\ Exhausted
    /\ result = "resolved"
    /\ confirms = RETRIES
    /\ clicks = RETRIES
    /\ Len(summary.failed) >= 1

\* C11: in an attempt whose openRowMenu yielded no menu, the attempt records
\* an error and goes on to the next retry without invoking
\* clickArchiveInMenu.
C11_NoClickWithoutMenu ==
    [][ (pc = "click" /\ menu = "null" /\ pc' # pc) =>
            /\ clicks' = clicks
            /\ pc' = "attemptEnd"
            /\ lastError'.kind = "Error" ]_vars

\* C12: a candidate whose row was already detached when its first attempt
\* began is reported archived with attempts = 1, whatever the reveal-menu
\* and trigger steps return.
C12_DetachedRowArchivedAtOnce ==
    (Reported /\ detachedAtCall) =>
        /\ attemptResult.success
        /\ attemptResult.attempts = 1

\* C13: an attempt result with success = true is produced only by the
\* confirmation step of the same attempt, on observing the row detached or
\* flagged data-task-archived="true"; the confirmation step is entered only
\* from a trigger step that reported success in that attempt; and a
\* candidate is counted and reported archived only on such a result.
C13_SuccessOnlyWhenConfirmed ==
    [][ /\ (pc' = "attemptReturn" /\ pc # "attemptReturn" /\ attemptResult'.success) =>
              /\ pc \in {"confirm", "confirmPoll"}
              /\ rowState[task] \in {"detached", "flagged"}
              /\ attemptResult'.attempts = attempts
              /\ attempts' = attempts
              /\ idx' = idx
        /\ (pc' = "confirm" /\ pc # "confirm") => ClickArchive(Returns("true"))
        /\ (pc' = "confirmPoll" /\ pc # "confirmPoll") => pc = "confirm"
        /\ archivedCount' # archivedCount =>
              /\ pc = "attemptReturn"
              /\ attemptResult.success
              /\ archivedCount' = archivedCount + 1
        /\ (Len(events') > Len(events) /\ events'[Len(events')].status = "archived") =>
              /\ pc = "attemptReturn"
              /\ attemptResult.success
              /\ events'[Len(events')].current.success = "true" ]_vars

\* C13 witness: a candidate reported archived on its second attempt, the
\* confirmation poll having seen the row flagged.
C13_Witness ==
    /\ pc = "loop"
    /\ sink = "record"
    /\ LastEvent.status = "archived"
    /\ LastEvent.current.success = "true"
    /\ attemptResult.success
    /\ attemptResult.attempts = 2
    /\ clicks >= 1
    /\ confirms >= 1
    /\ rowState[task] = "flagged"

\* the candidate at idx is inside attemptArchive or has just returned from it
InAttempt ==
    pc \in {"attemptHead", "openMenu", "click", "confirm", "confirmPoll",
            "attemptEnd", "retryDelay", "attemptReturn"}

\* C14: archive() awaits the delay between candidates exactly once after the
\* terminal event of each candidate but the last and before the 'attempt'
\* event of the next one, and awaits no delay after the last candidate:
\* 'complete' follows the last terminal event without a wait.
C14_DelayBetweenCandidates ==
    /\ betweenDelays =
         (IF processed < total THEN processed
                               ELSE IF total = 0 THEN 0 ELSE total - 1)
    /\ pc = "betweenDelay" =>
         /\ processed = idx
         /\ idx < total
         /\ sink = "record" =>
              /\ Len(events) = 2 * idx + 1
              /\ LastEvent.status \in Terminal
    /\ InAttempt =>
         /\ betweenDelays = idx - 1
         /\ sink = "record" => Len(events) = 2 * idx
    /\ (pc = "loop" /\ idx = total /\ total > 0) =>
         /\ betweenDelays = total - 1
         /\ sink = "record" =>
              /\ Len(events) = 2 * total + 1
              /\ LastEvent.status \in Terminal
    /\ result = "resolved" =>
         betweenDelays = (IF total = 0 THEN 0 ELSE total - 1)

\* C14 witness: a run over two candidates resolved after exactly one delay
\* between them.
C14_Witness ==
    /\ result = "resolved"
    /\ sink = "record"
    /\ total = 2
    /\ betweenDelays = 1
    /\ events[4].status = "attempt"
    /\ LastEvent.status = "complete"

\* C15: inside attemptArchive the delay is awaited after each failed attempt
\* except the RETRIES-th and never after a successful one: during attempt k
\* exactly k - 1 delays have been awaited, a candidate that exhausts its
\* retries has incurred RETRIES - 1 and one that succeeds on attempt k
\* has incurred k - 1.
C15_DelaysBetweenAttempts ==
    /\ pc \in {"openMenu", "click", "confirm", "confirmPoll", "attemptEnd"} =>
         retryDelays = attempts - 1
    /\ pc = "retryDelay" =>
         /\ retryDelays = attempts
         /\ attempts < RETRIES
         /\ lastError.kind = "Error"
    /\ Reported => retryDelays = attemptResult.attempts - 1
    /\ Exhausted => retryDelays = RETRIES - 1
    /\ (Reported /\ attemptResult.success) => retryDelays = attempts - 1

\* C15 witness: a candidate exhausted its retries after RETRIES - 1 delays
\* between its attempts.
C15_Witness ==
    /\ Exhausted
    /\ pc = "loop"
    /\ attempts = RETRIES
    /\ retryDelays = RETRIES - 1
    /\ lastError = ErrTrigger

\* C16: for a candidate list of length N a resolved run has emitted exactly
\* 2N + 2 progress events; for the empty list these are 'pending' then
\* 'complete', no reveal-menu, trigger or confirmation step is invoked, no
\* delay is awaited, and the summary is { total: 0, archived: 0, failed: [] }.
C16_EventTotal ==
    /\ (result = "resolved" /\ sink = "record") => Len(events) = 2 * total + 2
    /\ total = 0 =>
         /\ pc \in {"start", "loop", "done"}
         /\ idx = 0
         /\ opens = 0
         /\ clicks = 0
         /\ confirms = 0
         /\ retryDelays = 0
         /\ betweenDelays = 0
         /\ result = "resolved" =>
              /\ summary = [total |-> 0, archived |-> 0, failed |-> << >>]
              /\ sink = "record" =>
                   /\ Len(events) = 2
                   /\ events[1].status = "pending"
                   /\ events[2].status = "complete"
                   /\ events[2].summary = summary

\* C16 witness: the run over the empty list resolved with its two events.
C16_Witness ==
    /\ total = 0
    /\ result = "resolved"
    /\ sink = "record"
    /\ Len(events) = 2
    /\ summary.total = 0

\* the failures list a holder of the progress event reads from it now: the
\* elements copied at emission, or those of the live array if the event
\* shares it
Observed(event) ==
    IF event.failuresArray = "live" THEN failures ELSE event.failures

\* C18: the failures list of an emitted progress event is a snapshot: no
\* later step of the run (a failure pushed, the summary built, a later
\* event emitted) changes what an earlier event's failures list holds, which
\* stays as long as the event's failed count; and once the promise has
\* resolved the summary, summary.failed included, is never changed.
C18_FailuresAreSnapshots ==
    [][ /\ Len(events') >= Len(events)
        /\ \A i \in 1..Len(events) :
             /\ events'[i] = events[i]
             /\ Observed(events[i])' = Observed(events[i])
             /\ Len(Observed(events[i])') = events[i].failed
        /\ result = "resolved" => summary' = summary ]_vars

\* C18 witness: a second failure was pushed after the 'failed' event of the
\* first one, whose list still holds one failure.
C18_Witness ==
    /\ result = "resolved"
    /\ Len(events) = 6
    /\ events[3].status = "failed"
    /\ events[5].status = "failed"
    /\ Len(failures) = 2
    /\ Observed(events[3]) = << failures[1] >>
    /\ Len(summary.failed) = 2

\* C19 as stated: when the condition first returns a usable value on its
\* k-th invocation, the promise resolves with exactly that value and the
\* condition is never invoked a (k+1)-th time.
C19_ResolvesWithUsableValue ==
    usableAt > 0 =>
        /\ promise = Resolved(usable)
        /\ invocations = usableAt

\* C19 amended: when the condition first returns a usable value on its k-th
\* invocation, the condition is never invoked a (k+1)-th time, and the
\* promise resolves with exactly that value unless the timeout timer
\* rejected it while that invocation was in flight; it then stays rejected
\* with the error remembered at the timeout, or the Timeout error.
C19_UsableValueEndsThePoll ==
    usableAt > 0 =>
        /\ invocations = usableAt
        /\ usable \in UsableValues
        /\ ~active
        /\ timeoutId = {}
        /\ retryId = {}
        /\ checkPc = "idle"
        /\ \/ promise = Resolved(usable)
           \/ /\ promise.state = "rejected"
              /\ options.timeout.finite
              /\ elapsed >= options.timeout.ms
              /\ promise.value =
                   (IF pollError.kind \in {"undefined", "null"}
                      THEN TimeoutError
                      ELSE [kind |-> "Error", msg |-> pollError.msg])
        /\ options.timeout.finite = FALSE => promise = Resolved(usable)

\* C19 witness: the third invocation returned the first usable value, after
\* a falsy return and a throw, and the promise resolved with it.
C19_Witness ==
    /\ usableAt = 3
    /\ invocations = 3
    /\ pollError.kind = "Error"
    /\ promise = Resolved(Returns("element"))

\* the error a rejection at the timeout carries when lastError is `error`:
\* the remembered error, as an Error, or the Timeout error
RejectionAtTimeout(error) ==
    IF error.kind \in {"undefined", "null"}
      THEN TimeoutError
      ELSE [kind |-> "Error", msg |-> error.msg]

\* the promise is rejected in this step
NewlyRejected == promise.state = "pending" /\ promise'.state = "rejected"

\* C20 as stated: with a finite timeout and a condition that never returns a
\* usable value the promise always rejects, no later than the timeout, with
\* the Timeout error or the last remembered condition error, whatever the
\* latency of the condition.
C20_RejectsWithTimeoutOrLastError ==
    /\ []( (options.timeout.finite /\ usableAt = 0
              /\ elapsed > options.timeout.ms) => promise.state = "rejected" )
    /\ [][ (options.timeout.finite /\ NewlyRejected) =>
              promise'.value = RejectionAtTimeout(pollError') ]_vars
    /\ <>( \/ ~options.timeout.finite
           \/ usableAt > 0
           \/ promise.state = "rejected" )

\* C20 amended: with a finite timeout and a condition that never returns a
\* usable value the promise always rejects, no later than the timeout, with
\* the Timeout error or the last remembered condition error, or, at a check
\* that starts after the cancellation signal fired, with the Aborted error;
\* this holds whatever the latency of the condition, an invocation that
\* never completes included.
C20_RejectsByTheTimeout ==
    /\ []( (options.timeout.finite /\ usableAt = 0
              /\ elapsed > options.timeout.ms) => promise.state = "rejected" )
    /\ [][ (options.timeout.finite /\ NewlyRejected) =>
              \/ promise'.value = RejectionAtTimeout(pollError')
              \/ /\ signal.aborted
                 /\ checkPc = "check"
                 /\ promise'.value = AbortError(signal.reason) ]_vars
    /\ <>( \/ ~options.timeout.finite
           \/ usableAt > 0
           \/ promise.state = "rejected" )

\* C20 witness: the first invocation threw, the second never completed, and
\* the timeout timer rejected with the remembered error at the timeout.
C20_Witness ==
    /\ options.timeout.finite
    /\ elapsed = options.timeout.ms
    /\ usableAt = 0
    /\ invocations = 2
    /\ checkPc = "awaitLater"
    /\ promise = Rejected([kind |-> "Error", msg |-> "boom"])

\* C17: a run of archive() without an onProgress callback and a run with
\* one, over the same candidates, stay in step: whatever step one of them
\* takes (a reveal-menu, trigger or confirmation step with its outcome, a
\* delay, a return), the other can take the same step and is then in the
\* same state, with the same steps and delays made and, at the end, the
\* same summary.
C17_SameRunWithoutCallback ==
    /\ (phase = "follow" /\ Observable # twin.run) => ENABLED FollowerStep
    /\ (phase = "lead" /\ twin.run.result = "resolved") =>
         /\ result = "resolved"
         /\ summary = twin.run.summary
    /\ (phase = "follow" /\ result = "resolved") =>
         /\ twin.run.result = "resolved"
         /\ twin.run.summary = summary
    /\ twin.run.result # "rejected"
    /\ result # "rejected"
    /\ phase \in {"lead", "follow"} =>
         /\ twin.sink = OtherSink(sink)
         /\ sink = "none" => events = << >>
         /\ twin.sink = "none" => twin.events = << >>

\* C17 witness: the run without a callback has followed the run with one
\* through a failed candidate, retries and delays included, to the same
\* summary.
C17_Witness ==
    /\ phase = "lead"
    /\ sink = "record"
    /\ twin.sink = "none"
    /\ total = 1
    /\ result = "resolved"
    /\ Observable = twin.run
    /\ Len(events) = 4
    /\ twin.events = << >>
    /\ retryDelays = RETRIES - 1
    /\ Len(twin.run.summary.failed) = 1

\* the timeout of the call has been reached
TimeoutReached == options.timeout.finite /\ elapsed >= options.timeout.ms

\* C21 as stated: a throw of the condition never rejects the promise in the
\* step in which it is thrown, and a rejection by timeout after a throw
\* carries the remembered error, never the generic Timeout error.
C21_ThrowNeverRejects ==
    /\ [][ \A e \in PredicateThrows :
              PredicateUnusable(e) => promise' = promise ]_vars
    /\ [][ (NewlyRejected /\ checkPc # "check" /\ pollError' # Undefined) =>
              /\ promise'.value # TimeoutError
              /\ promise'.value.msg = pollError'.msg ]_vars

\* C21 amended: a throw of the condition before the timeout is reached never
\* rejects the promise: the thrown value is remembered and the next check is
\* scheduled. A throw at a check that ends when the timeout is reached
\* rejects at once. A rejection by timeout carries the last remembered
\* value, as an Error, unless that value is null or undefined, in which case
\* it carries the generic Timeout error.
C21_ThrowIsRemembered ==
    /\ [][ \A e \in PredicateThrows :
              PredicateUnusable(e) =>
                 /\ pollError' = e
                 /\ ~TimeoutReached =>
                      /\ promise' = promise
                      /\ retryId' = {elapsed + currentInterval'}
                      /\ active' = active
                 /\ TimeoutReached =>
                      /\ promise'.state = "rejected"
                      /\ ~active'
                      /\ retryId' = {} ]_vars
    /\ [][ (NewlyRejected /\ checkPc # "check") =>
              /\ TimeoutReached
              /\ pollError'.kind \in {"undefined", "null"} =>
                    promise'.value = TimeoutError
              /\ pollError'.kind \in {"Error", "string"} =>
                    promise'.value = [kind |-> "Error", msg |-> pollError'.msg]
              /\ pollError'.kind \in {"undefined", "null", "Error", "string"} ]_vars

\* C21 witness: the condition threw twice, polling went on to a third
\* invocation, and the timeout rejected with the error thrown last.
C21_Witness ==
    /\ invocations = 3
    /\ checkPc = "idle"
    /\ usableAt = 0
    /\ pollError = [kind |-> "Error", msg |-> "second failure"]
    /\ promise = Rejected([kind |-> "Error", msg |-> "second failure"])
    /\ elapsed = options.timeout.ms

\* C22: once the cancellation signal has fired with no usable value returned
\* before, the promise never resolves, whatever an invocation in flight or a
\* later one returns, and its rejection is the Aborted error made from the
\* signal's reason.
C22_AbortBeforeUsableValue ==
    /\ [][ (signal.aborted /\ usableAt = 0) => promise'.state # "resolved" ]_vars
    /\ [][ (signal.aborted /\ usableAt = 0 /\ NewlyRejected) =>
              promise'.value = AbortError(signal.reason) ]_vars

\* C23: when the cancellation signal fires while the wait is pending the
\* promise is rejected with Aborted before any time passes, without waiting
\* for the next scheduled check, and the timeout timer never rejects a wait
\* whose signal has fired.
C23_AbortIsImmediate ==
    /\ [][ (signal.aborted /\ promise.state = "pending") => elapsed' = elapsed ]_vars
    /\ [][ signal.aborted => ~(TimeoutFires /\ NewlyRejected) ]_vars

Min(a, b) == IF a <= b THEN a ELSE b

\* C24: the delay before the n-th re-check is
\* min(maxInterval, previousInterval * backoffFactor), the previous interval
\* being the initial interval before the first re-check; every delay is at
\* most maxInterval; and for backoffFactor >= 1 and interval <= maxInterval
\* the delays never decrease and stay at maxInterval once they reach it.
C24_BackoffDelays ==
    /\ \A n \in 1..Len(delays) :
          /\ delays[n] = Min(options.maxInterval,
                             (IF n = 1 THEN options.interval ELSE delays[n - 1])
                               * options.backoffFactor)
          /\ delays[n] <= options.maxInterval
    /\ (options.backoffFactor >= 1 /\ options.interval <= options.maxInterval) =>
          /\ Len(delays) >= 1 => options.interval <= delays[1]
          /\ \A n \in 2..Len(delays) :
                /\ delays[n - 1] <= delays[n]
                /\ delays[n - 1] = options.maxInterval => delays[n] = options.maxInterval

C24_Witness ==
    /\ options.backoffFactor >= 2
    /\ options.interval < options.maxInterval
    /\ Len(delays) = MaxChecks
    /\ options.interval < delays[1]
    /\ delays[1] < delays[2]
    /\ delays[2] < delays[3]
    /\ delays[3] = options.maxInterval
    /\ delays[4] = options.maxInterval

Archivable(s) == ~Occupied(s) /\ ~NotLoaded(s) /\ Len(s.matches) > 0

\* C26: with confirmAcknowledged false, requestArchive starts no run and
\* changes nothing but the dialog, which it makes visible when there is
\* something to archive (else at most a toast is added); a run starts only
\* in confirmArchive, or in requestArchive with confirmAcknowledged true;
\* and with confirmAcknowledged true requestArchive starts the run at once
\* and leaves the dialog hidden.
C26_ConfirmationGate ==
    /\ [][ (RequestArchive /\ ~store.confirmAcknowledged) =>
              /\ runsStarted' = runsStarted
              /\ flights' = flights
              /\ Archivable(store) => store' = [store EXCEPT !.confirmVisible = TRUE]
              /\ ~Archivable(store) => store' \in {store, AddToast(store, "info")} ]_vars
    /\ [][ runsStarted' # runsStarted =>
              /\ ConfirmArchive
              /\ store.confirmAcknowledged \/ ~RequestArchive ]_vars
    /\ [][ (RequestArchive /\ store.confirmAcknowledged) =>
              /\ ~store'.confirmVisible
              /\ Archivable(store) =>
                    /\ runsStarted' = runsStarted + 1
                    /\ Len(flights') = Len(flights) + 1
                    /\ store'.archiving ]_vars

C26_Witness ==
    /\ store.confirmVisible
    /\ ~store.confirmAcknowledged
    /\ ~store.archiving
    /\ Len(store.matches) > 0
    /\ runsStarted = 0
    /\ flights = << >>

\* the keyword without the blanks around it and in lower case
IsCoreOf(core, keyword) ==
    \E i \in 1..(Len(keyword) + 1), j \in 0..Len(keyword) :
       /\ j - i + 1 = Len(core)
       /\ \A n \in 1..Len(keyword) : (n < i \/ n > j) => keyword[n] = " "
       /\ \A n \in 1..Len(core) :
             \/ core[n] = keyword[i + n - 1] /\ core[n] # "A"
             \/ core[n] = "a" /\ keyword[i + n - 1] = "A"
       /\ core # << >> => core[1] # " " /\ core[Len(core)] # " "

\* the place of the first keyword of the list with the given core
FirstPlace(list, core) ==
    CHOOSE i \in DOMAIN list :
       /\ IsCoreOf(core, list[i])
       /\ \A k \in 1..(i - 1) : ~IsCoreOf(core, list[k])

\* the list holds the non-empty cores of the keywords, once each, in the
\* order in which they first come
IsNormalOf(list, keywords) ==
    /\ \A x \in DOMAIN list :
          list[x] # << >> /\ \E y \in DOMAIN keywords : IsCoreOf(list[x], keywords[y])
    /\ \A x, z \in DOMAIN list : x # z => list[x] # list[z]
    /\ \A y \in DOMAIN keywords :
          IsCoreOf(<< >>, keywords[y]) \/ \E x \in DOMAIN list : IsCoreOf(list[x], keywords[y])
    /\ \A x, z \in DOMAIN list :
          x < z => FirstPlace(keywords, list[x]) < FirstPlace(keywords, list[z])

\* a step of loadMatchSettings that follows the saving of the list loaded
\* before
LoadsWhatItSaved ==
    /\ loadMatchSettings
    /\ sinceSave = "saved"
    /\ loaded.set
    /\ settings = loaded

\* C27 as claimed: a load that follows saveMatchSettings(k) returns the
\* keywords of k trimmed, lower-cased, without empty entries and without
\* duplicates, in the order of first occurrence; and saving the loaded list
\* and loading again returns the same list.
C27_RoundTripIsNormal ==
    /\ [](sinceSave = "loaded" => IsNormalOf(loaded.keywords, settings.keywords))
    /\ [][ LoadsWhatItSaved => loaded' = loaded ]_vars

\* C27: a load that follows saveMatchSettings(k) returns the keywords of k
\* trimmed, lower-cased, without empty entries and without duplicates, in
\* the order of first occurrence, or the default keywords when k has no
\* keyword that is not blank; and saving the loaded list and loading again
\* returns the same list.
C27_RoundTripIsNormalOrDefault ==
    /\ [](sinceSave = "loaded" =>
             IF \A y \in DOMAIN settings.keywords : IsCoreOf(<< >>, settings.keywords[y])
               THEN loaded.keywords = DEFAULT_MATCH_KEYWORDS
               ELSE IsNormalOf(loaded.keywords, settings.keywords))
    /\ [][ LoadsWhatItSaved => loaded' = loaded ]_vars

C27_Witness ==
    /\ sinceSave = "loaded"
    /\ settings.keywords = << << " ", "A" >>, << "a", " " >> >>
    /\ loaded.keywords = << << "a" >> >>
    /\ stored = loaded

\* the places of the visible rows that come before the given place
VisibleBefore(i) == { k \in 1..(i - 1) : page[k].visible }

\* C28: scan() returns at most ScanCap candidates, each a visible row the
\* keyword policy matches, no row twice, in document order, and each among
\* the first ScanCap visible rows of the page: a matching row with ScanCap
\* or more visible rows before it is never returned.
C28_ScanIsCapped ==
    candidates.done =>
       /\ Len(candidates.rows) <= ScanCap
       /\ \A x \in DOMAIN candidates.rows :
             /\ candidates.rows[x] \in DOMAIN page
             /\ page[candidates.rows[x]].visible
             /\ page[candidates.rows[x]].nerch
             /\ Cardinality(VisibleBefore(candidates.rows[x])) < ScanCap
       /\ \A x, z \in DOMAIN candidates.rows :
             x < z => candidates.rows[x] < candidates.rows[z]

C28_Witness ==
    /\ candidates.done
    /\ Len(page) = MaxRows
    /\ \A i \in DOMAIN page : page[i].visible
    /\ page[1].nerch /\ ~page[ScanCap].nerch /\ page[MaxRows].nerch
    /\ page[1].linked
    /\ candidates.rows = << 1 >>

\* the entries of summary.failed for the candidate at a place of the input
FailedEntries(i) ==
    { k \in DOMAIN summary.failed : summary.failed[k].task = tasks[i] }

\* the 'archived' events for the candidate at a place of the input
ArchivedEvents(i) ==
    { k \in DOMAIN events :
         events[k].status = "archived" /\ events[k].current.task = tasks[i] }

\* C29: when the run has resolved every candidate has one 'archived' event
\* or one entry of summary.failed and not both; the failed entries are in
\* the order of the input, each with attempts = RETRIES and an Error, which
\* is the last error captured for the candidate or the fallback.
C29_OneOutcomePerCandidate ==
    /\ result = "resolved" =>
          /\ summary.failed = failures
          /\ summary.archived = Len(tasks) - Len(summary.failed)
          /\ \A i \in DOMAIN tasks :
                /\ Cardinality(FailedEntries(i)) <= 1
                /\ sink = "record" =>
                      Cardinality(ArchivedEvents(i)) + Cardinality(FailedEntries(i)) = 1
    /\ \A k, l \in DOMAIN failures :
          k < l => \E i, j \in DOMAIN tasks :
                      i < j /\ failures[k].task = tasks[i] /\ failures[l].task = tasks[j]
    /\ \A k \in DOMAIN failures :
          /\ failures[k].attempts = RETRIES
          /\ failures[k].error.kind = "Error"
    /\ (Exhausted /\ pc \in {"betweenDelay", "loop", "done"}) =>
          failures[Len(failures)] =
             [task |-> task, attempts |-> RETRIES, error |-> FallbackError(lastError)]

C29_Witness ==
    /\ result = "resolved"
    /\ sink = "record"
    /\ Len(tasks) = 2
    /\ Len(summary.failed) = 1
    /\ summary.failed[1].task = tasks[1]
    /\ summary.failed[1].error = ErrNotInTime
    /\ ArchivedEvents(2) # {}
    /\ ArchivedEvents(1) = {}

\* the remembered error changes only when an invocation of the predicate
\* throws: an invocation that returns without a usable value keeps it
OnlyAThrowChangesTheError ==
    [][ (pollError' # pollError \/ threwAt' # threwAt) =>
           /\ checkPc \in {"awaitNow", "awaitLater"}
           /\ pollError' \in PredicateThrows
           /\ threwAt' = invocations ]_vars

\* C30 as claimed: the remembered error is kept by the invocations that
\* return without throwing, and a rejection at the timeout is the
\* TimeoutError exactly when no invocation of the predicate threw.
C30_TimeoutErrorIffNoThrow ==
    /\ OnlyAThrowChangesTheError
    /\ [][ (NewlyRejected /\ checkPc # "check") =>
              (promise'.value = TimeoutError <=> threwAt' = 0) ]_vars

\* C30: the remembered error is kept by the invocations that return without
\* throwing, and a rejection at the timeout is the TimeoutError exactly
\* when no invocation of the predicate threw or the last one that threw,
\* threw null or undefined.
C30_TimeoutErrorIffNothingRemembered ==
    /\ OnlyAThrowChangesTheError
    /\ [][ (NewlyRejected /\ checkPc # "check") =>
              /\ promise'.value = TimeoutError <=>
                    (threwAt' = 0 \/ pollError'.kind \in {"undefined", "null"})
              /\ threwAt' = 0 <=> pollError' = Undefined ]_vars

C30_Witness ==
    /\ threwAt = 1
    /\ invocations = 3
    /\ checkPc = "idle"
    /\ usableAt = 0
    /\ ~signal.aborted
    /\ pollError = [kind |-> "Error", msg |-> "first failure"]
    /\ promise = Rejected(pollError)

\* C31: waitForPredicate settles at most once, and once it has settled, by
\* a usable value, by the timeout timer, by the timeout test inside check()
\* or by the cancellation signal, the condition is never invoked again,
\* whatever the order of the timeout timer, the retry timer and the return
\* of an invocation that is in flight.
C31_SettlesOnce ==
    [][ promise.state # "pending" =>
          /\ promise' = promise
          /\ invocations' = invocations ]_vars

\* C31 witness: the timeout timer rejected the promise while an invocation
\* was in flight, and that invocation then returned a usable value.
C31_Witness ==
    /\ promise.state = "rejected"
    /\ usableAt > 0
    /\ invocations = usableAt
    /\ checkPc = "idle"

\* C32: in the panel store at most one archive() run is in flight at any
\* time, and the archiving flag is true exactly while a run is in flight,
\* whatever the order of scanMatches, requestArchive, confirmArchive,
\* cancelArchive and setPanelEnabled(false / true) with a run pending.
C32_OneRunExactlyWhileArchiving ==
    /\ Len(flights) <= 1
    /\ store.archiving <=> Len(flights) > 0

\* the fields of the panel store, the runs it started and what it saved
panelFields == << store, flights, runsStarted, savedAck >>

\* C33: while archiving is true, scanMatches, requestArchive, confirmArchive
\* and cancelArchive can be called and are no-ops: no step of any of them
\* changes a field of the panel store, adds a toast, or starts a run.
C33_NoOpsWhileArchiving ==
    store.archiving =>
        /\ \A outcome \in ScanOutcomes :
              /\ ENABLED ScanMatches(outcome)
              /\ ~ENABLED << ScanMatches(outcome) >>_panelFields
        /\ ENABLED RequestArchive
        /\ ~ENABLED << RequestArchive >>_panelFields
        /\ ENABLED ConfirmArchive
        /\ ~ENABLED << ConfirmArchive >>_panelFields
        /\ ENABLED CancelArchive
        /\ ~ENABLED << CancelArchive >>_panelFields

\* C33 witness: a run over two tasks has archived the first and is at the
\* second, the confirmation was acknowledged and there is room for a toast,
\* so each of the four calls would act if archiving were false.
C33_Witness ==
    /\ store.archiving
    /\ store.panelEnabled
    /\ store.ready
    /\ store.confirmAcknowledged
    /\ store.matches = << "archived", "processing" >>
    /\ store.toasts = 0
    /\ runsStarted < MaxRuns
    /\ Len(flights) = 1

\* ready, scanning, archiving and confirmVisible are false and matches is
\* empty
PanelReset(s) ==
    /\ ~s.ready
    /\ ~s.scanning
    /\ ~s.archiving
    /\ ~s.confirmVisible
    /\ s.matches = << >>

\* C34: in every reachable state of the panel store ready implies
\* panelEnabled, and confirmVisible implies panelEnabled, ready, a non-empty
\* matches list, not scanning and not archiving; and setPanelEnabled(false)
\* resets ready, scanning, archiving and confirmVisible to false and matches
\* to the empty list.
C34_StoreInvariant ==
    /\ [](store.ready => store.panelEnabled)
    /\ [](store.confirmVisible =>
            /\ store.panelEnabled
            /\ store.ready
            /\ Len(store.matches) > 0
            /\ ~store.scanning
            /\ ~store.archiving)
    /\ [][ \A message \in StatusArguments :
              SetPanelEnabled(FALSE, message) =>
                  ~store'.panelEnabled /\ PanelReset(store') ]_vars

\* C34 witness: the panel was disabled while a run was in flight, which
\* reset it, then enabled and scanned again, and the confirmation dialog is
\* open over the new matches while the old run is still pending.
C34_Witness ==
    /\ store.confirmVisible
    /\ Len(store.matches) = MaxMatches
    /\ Len(flights) = 1
    /\ ~flights[1].current

\* the number of entries of a matches list with the given status
Entries(list, status) == Cardinality({ i \in DOMAIN list : list[i] = status })

\* the last task of run r is being attempted
AtLastTask(r) == flights[r].processed + 1 = flights[r].total

\* C35: when an archive() run started by confirmArchive completes and the
\* panel was enabled all the time since it started, archiving is false and
\* every entry of matches is "archived" or "failed", none "pending" or
\* "processing", with as many "archived" entries as summary.archived and as
\* many "failed" entries as summary.failed.length.
C35_CompletedRunIsReflected ==
    [][ \A r \in 1..MaxRuns, success \in BOOLEAN :
          ( /\ FlightTaskDone(r, success)
            /\ AtLastTask(r)
            /\ tally[r].enabled ) =>
              LET archived == TallyCounted(r, success)[r].archived
              IN  /\ ~store'.archiving
                  /\ \A i \in DOMAIN store'.matches :
                        store'.matches[i] \in {"archived", "failed"}
                  /\ Entries(store'.matches, "archived") = archived
                  /\ Entries(store'.matches, "failed") =
                         flights[r].total - archived ]_vars

\* C36: whatever the order of the calls of ensurePanelForRoute (the first
\* call, the interval, popstate, hashchange, the patched pushState and
\* replaceState), at most one call of mountPanel is in progress at a time
\* and at most one panel host element is in the document.
C36_OneMountOneHost ==
    /\ Len(mountCalls) <= 1
    /\ hosts <= 1

\* C36 witness: the interval and the listeners are installed, a call of
\* mountPanel is in progress with its host in the document, and the route
\* has left /codex meanwhile.
C36_Witness ==
    /\ runPc = "listening"
    /\ mounting
    /\ mountCalls = << "preferences" >>
    /\ hosts = 1
    /\ ~isCodexRoute(pathname)

\* the panel is not there: no cleanup is held, no host and no content offset
\* are in the document, and the store is disabled
Unmounted ==
    /\ cleaningPanel = "null"
    /\ hosts = 0
    /\ ~offsetStyle
    /\ ~store.panelEnabled

\* the panel is there
PanelMounted ==
    /\ cleaningPanel = "unmount"
    /\ hosts = 1
    /\ offsetStyle
    /\ connected

Alternates(told) == \A i \in DOMAIN told : told[i] = (i % 2 = 1)

\* C38: createTaskObserver is edge-triggered: onAvailabilityChange is called
\* only when the availability of the task list differs from the value
\* reported last, so the reported values strictly alternate and the first,
\* if there is one, is true; and no callback is made once the returned
\* disconnect function was called.
C38_EdgeTriggered ==
    /\ [](Alternates(reports))
    /\ [](connected /\ reports # << >> => previous = reports[Len(reports)])
    /\ [][ ~connected' => reports' = reports ]_vars

\* C38 witness: the observer reported that the list appeared and that it
\* went, was disconnected, and the list has appeared again since.
C38_Witness ==
    /\ reports = << TRUE, FALSE >>
    /\ ~connected
    /\ taskList

\* a string that is not empty, has no blank at either end and no upper-case
\* letter
IsKeyword(keyword) ==
    /\ keyword # NotAString
    /\ keyword # << >>
    /\ keyword[1] # " "
    /\ keyword[Len(keyword)] # " "
    /\ \A i \in DOMAIN keyword : keyword[i] # "A"

\* the stored value is no object with an array of keywords that holds a
\* string with a character that is not a blank
NothingUsable(value) ==
    \/ ~value.set
    \/ ~value.object
    \/ ~value.array
    \/ \A i \in DOMAIN value.keywords :
          \/ value.keywords[i] = NotAString
          \/ \A j \in DOMAIN value.keywords[i] : value.keywords[i][j] = " "

\* C39: loadMatchSettings never returns an empty keyword list: whatever is
\* stored under the settings key (nothing, a value that is not an object,
\* an object whose keywords field is not an array, an array with entries
\* that are not strings or are blank) the result is a non-empty list of
\* trimmed lower-case keywords without duplicates, and it is the default
\* keywords when the stored value holds no non-blank string.
C39_LoadedNeverEmpty ==
    /\ [](loaded.set =>
            /\ Len(loaded.keywords) > 0
            /\ \A i \in DOMAIN loaded.keywords : IsKeyword(loaded.keywords[i])
            /\ \A i, j \in DOMAIN loaded.keywords :
                  i # j => loaded.keywords[i] # loaded.keywords[j])
    /\ [][ (loadMatchSettings /\ NothingUsable(stored)) =>
              loaded'.keywords = DEFAULT_MATCH_KEYWORDS ]_vars

\* C39 witness: the stored array holds a number and a blank string, and the
\* load returned the default keywords.
C39_Witness ==
    /\ stored = SomeKeywords(<< NotAString, << " " >> >>)
    /\ loaded = SomeKeywords(DEFAULT_MATCH_KEYWORDS)

====
